---- MODULE Spec2Model ----
(***************************************************************************)
(* Bank reconciliation service (src/services/reconciliation).              *)
(*                                                                         *)
(* One statement-processing run of ReconciliationEngine, from the upload   *)
(* endpoint to the value process_bank_statement returns, with the fuzzy    *)
(* matcher computed as the code computes it.                               *)
(*                                                                         *)
(* Units.  Money is counted in cents, dates in days of the year 2024       *)
(* (15 = 2024-01-15).  A component score is counted in thousandths         *)
(* (1000 = 1.0) and a weighted total in hundred-thousandths                *)
(* (95000 = 0.95), so that 0.40/0.25/0.25/0.10 are the integer weights     *)
(* 40/25/25/10.  For every transaction/candidate pair of the catalogues    *)
(* below the float total of the code and the exact total fall on the same  *)
(* side of both thresholds.                                                *)
(***************************************************************************)
EXTENDS Integers, Sequences, FiniteSets, TLC

(* ------------------------------------------------------------------ *)
(* Bounds of the model                                                 *)
(* ------------------------------------------------------------------ *)

\* Rows of an uploaded CSV or OFX statement.
MaxRows == 2

\* Length of a candidate list answered by the ledger.
MaxCands == 2

\* Reference tokens on one side of a scored pair.
MaxRefs == 2

\* Days between a transaction and a candidate whose date alone is scored.
MaxDays == 25

\* Characters of a cell handed to _parse_amount.
MaxCell == 5

\* max_transactions_per_batch (1000 unless the environment sets it), taken
\* below MaxRows so that a statement can exceed it.
MaxTransactionsPerBatch == 1

(* ------------------------------------------------------------------ *)
(* Settings (app/config.py)                                            *)
(* ------------------------------------------------------------------ *)

SimilarityThreshold == 80000

AutoMatchThreshold == 95000

\* amount_tolerance_percent, in percent
AmountTolerancePercent == 2

\* amount_tolerance_absolute, in currency units
AmountToleranceAbsolute == 10

DateToleranceAfter == 10

Cents(units) == units * 100

(* ------------------------------------------------------------------ *)
(* Helpers                                                             *)
(* ------------------------------------------------------------------ *)

Abs(x) == IF x < 0 THEN 0 - x ELSE x

MinOf(a, b) == IF a <= b THEN a ELSE b

MaxOf(a, b) == IF a >= b THEN a ELSE b

SetMax(S) == CHOOSE x \in S : \A y \in S : y <= x

Range(s) == {s[i] : i \in 1..Len(s)}

SeqsUpTo(S, n) == UNION {[1..k -> S] : k \in 0..n}

DistinctSeqsUpTo(S, n) ==
    {s \in SeqsUpTo(S, n) : \A i, j \in 1..Len(s) : i # j => s[i] # s[j]}

RECURSIVE SeqSum(_)
SeqSum(s) == IF s = <<>> THEN 0 ELSE Head(s) + SeqSum(Tail(s))

\* The value standing for "no date" / "no value" in an integer field.
None == 0 - 1

\* The outcome of a scoring function that raised TypeError.
Raised == 0 - 2

(* ------------------------------------------------------------------ *)
(* The texts of the catalogues, as _normalize_description leaves them, *)
(* and the similarity the fuzzywuzzy / difflib ratios give them.       *)
(* ------------------------------------------------------------------ *)

DescClienteNf == "cliente abc ltda nf 001"

DescCliente == "cliente abc ltda"

DescEmpresaNf == "empresa xyz s a nf 002"

DescFornecedorFat == "fornecedor abc fat 001"

DescTed == "ted recebida empresa abc ltda"

DescPagamento == "pagamento fornecedor xyz"

DescPix == "pix recebido cliente abc ltda"

DescCliente4521 == "cliente abc ltda 4521"

\* max of fuzz.ratio, partial_ratio, token_sort_ratio, token_set_ratio and
\* SequenceMatcher.ratio, in thousandths.
BestRatio(txn_desc, candidate_desc) ==
    IF txn_desc = candidate_desc THEN 1000
    ELSE LET p == <<txn_desc, candidate_desc>> IN
    CASE p = <<DescClienteNf, DescCliente>> -> 1000
      [] p = <<DescClienteNf, DescCliente4521>> -> 860
      [] p = <<DescCliente, DescClienteNf>> -> 1000
      [] p = <<DescCliente, DescCliente4521>> -> 1000
      [] p = <<DescPix, DescCliente>> -> 1000
      [] p = <<DescPix, DescCliente4521>> -> 860
      [] p = <<DescPix, DescClienteNf>> -> 820
      [] p = <<DescClienteNf, DescEmpresaNf>> -> 520
      [] p = <<DescClienteNf, DescFornecedorFat>> -> 570
      [] p = <<DescFornecedorFat, DescClienteNf>> -> 570
      [] p = <<DescFornecedorFat, DescEmpresaNf>> -> 440
      [] p = <<DescFornecedorFat, DescCliente>> -> 500
      [] p = <<DescTed, DescClienteNf>> -> 570
      [] p = <<DescTed, DescEmpresaNf>> -> 530
      [] p = <<DescTed, DescCliente>> -> 690
      [] p = <<DescTed, DescFornecedorFat>> -> 500
      [] p = <<DescPagamento, DescClienteNf>> -> 260
      [] p = <<DescPagamento, DescEmpresaNf>> -> 360
      [] p = <<DescPagamento, DescCliente>> -> 380
      [] p = <<DescPagamento, DescFornecedorFat>> -> 620
      [] OTHER -> 0

\* The important keywords a text contains (`keyword in desc`).
KeywordsIn(desc) ==
    CASE desc = DescClienteNf -> {"nf"}
      [] desc = DescEmpresaNf -> {"nf"}
      [] desc = DescTed -> {"ted"}
      [] desc = DescPagamento -> {"pagamento"}
      [] desc = DescPix -> {"pix"}
      [] OTHER -> {}

\* The bonus counting the keywords of the transaction alone.
KeywordBonusOneSided(txn_desc, candidate_desc) ==
    MinOf(200, 50 * Cardinality(KeywordsIn(txn_desc)))

CalculateKeywordBonus(txn_desc, candidate_desc) ==
    MinOf(200, 50 * Cardinality(KeywordsIn(txn_desc) \cap KeywordsIn(candidate_desc)))

\* len(token) of a reference token.
TokenLen(token) ==
    IF token \in {"FAT001", "TED001", "PAG001", "NF4521", "NF1001", "NF1002"} THEN 6 ELSE 5

\* fuzz.ratio of two reference tokens, in thousandths.
TokenRatio(t_ref, c_ref) ==
    IF t_ref = c_ref THEN 1000
    ELSE LET p == <<t_ref, c_ref>> IN
    CASE p \in {<<"NF001", "NF002">>} -> 800
      [] p \in {<<"NF001", "FAT001">>, <<"FAT001", "NF001">>, <<"FAT001", "AR001">>,
                <<"FAT001", "AP001">>, <<"PAG001", "AR001">>, <<"PAG001", "AP001">>} -> 730
      [] p \in {<<"TED001", "FAT001">>, <<"PAG001", "FAT001">>} -> 670
      [] p \in {<<"NF1001", "NF001">>, <<"NF001", "NF1001">>} -> 910
      [] p \in {<<"NF1001", "NF1002">>, <<"NF1002", "NF1001">>} -> 830
      [] p \in {<<"NF1002", "NF001">>, <<"NF001", "NF1002">>} -> 730
      [] p \in {<<"NF1002", "AR001">>, <<"AR001", "NF1002">>} -> 360
      [] p \in {<<"NF001", "AR001">>, <<"AR001", "NF001">>, <<"NF001", "AP001">>} -> 600
      [] p \in {<<"NF001", "AR002">>, <<"NF001", "AR003">>, <<"NF001", "AP002">>,
                <<"NF001", "AP003">>} -> 400
      [] p \in {<<"TED001", "NF002">>, <<"TED001", "AR002">>, <<"TED001", "AR003">>,
                <<"TED001", "AP002">>, <<"TED001", "AP003">>, <<"PAG001", "NF002">>} -> 360
      [] p \in {<<"NF4521", "AR001">>} -> 180
      [] OTHER -> 550

(* ------------------------------------------------------------------ *)
(* FuzzyMatcher (app/processors/fuzzy_matcher.py)                      *)
(* ------------------------------------------------------------------ *)

\* abs_diff and percent_diff are Decimal; the tolerances are float.  The
\* comparisons work, the arithmetic Decimal / float and float - Decimal
\* raises TypeError.
CalculateAmountScore(txn_amount, candidate_amount) ==
    LET abs_diff == Abs(txn_amount - candidate_amount) IN
    IF candidate_amount = 0 THEN 0
    ELSE IF abs_diff = 0 THEN 1000
    ELSE IF abs_diff <= Cents(AmountToleranceAbsolute) THEN 950
    ELSE IF abs_diff * 100 <= AmountTolerancePercent * candidate_amount THEN Raised
    ELSE IF abs_diff * 10 < 3 * candidate_amount THEN Raised
    ELSE 0

\* A date score that stays at 0.8 up to date_tolerance_after days.
DateScoreFlatToTolerance(txn_date, candidate_date) ==
    IF candidate_date = None THEN 500
    ELSE LET days_diff == Abs(txn_date - candidate_date) IN
         IF days_diff = 0 THEN 1000
         ELSE IF days_diff <= 3 THEN 900
         ELSE IF days_diff <= DateToleranceAfter THEN 800
         ELSE MaxOf(0, 200 - MinOf(200, days_diff * 10))

\* The branches of _calculate_date_score for a candidate with a date, with
\* self.date_tolerance_after as an argument.
DateScoreAt(days_diff, tolerance_after) ==
    IF days_diff = 0 THEN 1000
    ELSE IF days_diff <= 3 THEN 900
    ELSE IF days_diff <= 7 THEN 800
    ELSE IF days_diff <= tolerance_after
         THEN MaxOf(0, 800 - (days_diff - 7) * 100)
    ELSE MaxOf(0, 200 - MinOf(200, days_diff * 10))

\* _calculate_date_score under the settings as shipped.
CalculateDateScore(txn_date, candidate_date) ==
    IF candidate_date = None THEN 500
    ELSE DateScoreAt(Abs(txn_date - candidate_date), DateToleranceAfter)

CalculateDescriptionScore(txn_desc, candidate_desc) ==
    IF txn_desc = "" \/ candidate_desc = "" THEN 300
    ELSE MinOf(1000, BestRatio(txn_desc, candidate_desc)
                     + CalculateKeywordBonus(txn_desc, candidate_desc))

\* The double loop over txn_ref x candidate_ref, visited in order: pair
\* number k (from 0) is (txn_ref[k \div n + 1], candidate_ref[k % n + 1]).
RECURSIVE ReferenceLoop(_, _, _)
ReferenceLoop(txn_ref, candidate_ref, k) ==
    LET n == Len(candidate_ref) IN
    IF k >= Len(txn_ref) * n THEN 0
    ELSE LET t_ref == txn_ref[(k \div n) + 1]
             c_ref == candidate_ref[(k % n) + 1]
         IN IF t_ref = c_ref THEN 1000
            ELSE IF TokenLen(t_ref) >= 4 /\ TokenLen(c_ref) >= 4
                    /\ TokenRatio(t_ref, c_ref) > 800
                 THEN TokenRatio(t_ref, c_ref)
            ELSE ReferenceLoop(txn_ref, candidate_ref, k + 1)

\* The reference score without the neutral value for a side without tokens.
ReferenceScoreNoNeutral(txn_ref, candidate_ref) ==
    IF txn_ref = <<>> \/ candidate_ref = <<>> THEN 0
    ELSE ReferenceLoop(txn_ref, candidate_ref, 0)

CalculateReferenceScore(txn_ref, candidate_ref) ==
    IF txn_ref = <<>> \/ candidate_ref = <<>> THEN 500
    ELSE ReferenceLoop(txn_ref, candidate_ref, 0)

\* The reason taken as the first factor, in the order of the dict, that
\* crossed its threshold.
PrimaryReasonFirstCrossed(amount_score, date_score, desc_score, ref_score) ==
    IF amount_score >= 950 THEN "valor_exato"
    ELSE IF amount_score >= 800 THEN "valor_similar"
    ELSE IF date_score >= 950 THEN "data_exata"
    ELSE IF date_score >= 800 THEN "data_proxima"
    ELSE IF desc_score >= 800 THEN "descricao_similar"
    ELSE IF ref_score >= 800 THEN "referencia_match"
    ELSE IF amount_score >= 700 /\ date_score >= 700 THEN "valor_e_data"
    ELSE IF amount_score >= 700 /\ desc_score >= 700 THEN "valor_e_descricao"
    ELSE IF desc_score >= 700 /\ date_score >= 700 THEN "descricao_e_data"
    ELSE "combinacao_fatores"

\* scores is a dict in insertion order; max(..., key=value) keeps the first
\* of the largest.
DeterminePrimaryReason(amount_score, date_score, desc_score, ref_score) ==
    LET scores == <<
            <<"valor_exato", IF amount_score >= 950 THEN amount_score ELSE 0>>,
            <<"valor_similar",
              IF amount_score >= 800 /\ amount_score < 950 THEN amount_score ELSE 0>>,
            <<"data_exata", IF date_score >= 950 THEN date_score ELSE 0>>,
            <<"data_proxima",
              IF date_score >= 800 /\ date_score < 950 THEN date_score ELSE 0>>,
            <<"descricao_similar", IF desc_score >= 800 THEN desc_score ELSE 0>>,
            <<"referencia_match", IF ref_score >= 800 THEN ref_score ELSE 0>> >>
        best == SetMax({scores[i][2] : i \in 1..6})
        first == CHOOSE i \in 1..6 :
                    /\ scores[i][2] = best
                    /\ \A j \in 1..(i - 1) : scores[j][2] # best
    IN IF best > 0 THEN scores[first][1]
       ELSE IF amount_score >= 700 /\ date_score >= 700 THEN "valor_e_data"
       ELSE IF amount_score >= 700 /\ desc_score >= 700 THEN "valor_e_descricao"
       ELSE IF desc_score >= 700 /\ date_score >= 700 THEN "descricao_e_data"
       ELSE "combinacao_fatores"

CalculateMatchScore(transaction, candidate) ==
    LET amount_score == CalculateAmountScore(Abs(transaction.amount), candidate.amount)
        date_score == CalculateDateScore(transaction.date, candidate.due_date)
        desc_score == CalculateDescriptionScore(transaction.description,
                                                candidate.description)
        ref_score == CalculateReferenceScore(transaction.refs, candidate.refs)
    IN IF amount_score = Raised
       THEN [raised |-> TRUE, total_score |-> 0, primary_reason |-> "",
             amount_score |-> 0, date_score |-> 0,
             description_score |-> 0, reference_score |-> 0]
       ELSE [raised |-> FALSE,
             total_score |-> amount_score * 40 + date_score * 25
                             + desc_score * 25 + ref_score * 10,
             primary_reason |-> DeterminePrimaryReason(amount_score, date_score,
                                                       desc_score, ref_score),
             amount_score |-> amount_score, date_score |-> date_score,
             description_score |-> desc_score, reference_score |-> ref_score]

\* The comparison of the loop without the floor.
ImprovesNoFloor(total_score, best_score) ==
    total_score > best_score

\* The comparison of the loop letting a later equal score win.
ImprovesOrTies(total_score, best_score) ==
    total_score >= best_score /\ total_score >= SimilarityThreshold

\* `total_score > best_score and total_score >= self.similarity_threshold`
Improves(total_score, best_score) ==
    total_score > best_score /\ total_score >= SimilarityThreshold

NoMatch == [found |-> FALSE, invoice |-> [id |-> "", has_id |-> FALSE],
            confidence |-> 0, reason |-> ""]

\* A loop that gives the transaction up at the first pair that raises.
RECURSIVE BestMatchLoopGivingUp(_, _, _, _)
BestMatchLoopGivingUp(transaction, candidates, k, best_match) ==
    IF k > Len(candidates) THEN best_match
    ELSE LET score_data == CalculateMatchScore(transaction, candidates[k]) IN
         IF score_data.raised THEN NoMatch
         ELSE IF Improves(score_data.total_score, best_match.confidence)
         THEN BestMatchLoopGivingUp(transaction, candidates, k + 1,
                                    [found |-> TRUE, invoice |-> candidates[k],
                                     confidence |-> score_data.total_score,
                                     reason |-> score_data.primary_reason])
         ELSE BestMatchLoopGivingUp(transaction, candidates, k + 1, best_match)

\* The loop of find_best_match from candidate k on; a candidate whose
\* scoring raises is logged and skipped.
RECURSIVE BestMatchLoop(_, _, _, _)
BestMatchLoop(transaction, candidates, k, best_match) ==
    IF k > Len(candidates) THEN best_match
    ELSE LET score_data == CalculateMatchScore(transaction, candidates[k]) IN
         IF ~score_data.raised
            /\ Improves(score_data.total_score, best_match.confidence)
         THEN BestMatchLoop(transaction, candidates, k + 1,
                            [found |-> TRUE, invoice |-> candidates[k],
                             confidence |-> score_data.total_score,
                             reason |-> score_data.primary_reason])
         ELSE BestMatchLoop(transaction, candidates, k + 1, best_match)

FindBestMatch(transaction, candidates) ==
    IF candidates = <<>> THEN NoMatch
    ELSE BestMatchLoop(transaction, candidates, 1, NoMatch)

(* ------------------------------------------------------------------ *)
(* The ledger: candidate records the Core API may answer               *)
(* ------------------------------------------------------------------ *)

Candidate(id, amount, due_date, description, refs) ==
    [id |-> id, has_id |-> (id # ""), amount |-> amount, due_date |-> due_date,
     description |-> description, refs |-> refs]

\* The two records of the simulated answer of _get_ar_invoices.
Ar001 == Candidate("ar-001", Cents(1500), 15, DescClienteNf, <<"NF001", "AR001">>)

Ar002 == Candidate("ar-002", 280050, 20, DescEmpresaNf, <<"NF002", "AR002">>)

\* A second open invoice of the same customer, amount, date and number.
Ar003 == Candidate("ar-003", Cents(1500), 15, DescClienteNf, <<"NF001", "AR003">>)

\* Due three days earlier, no invoice number: no reference token.
Ar4 == Candidate("ar-4", Cents(1500), 12, DescCliente, <<>>)

\* A record the API answered without an "id" key.
ArNoId == Candidate("", Cents(1500), 15, DescClienteNf, <<"NF001">>)

\* The record of the simulated answer of _get_ap_invoices.
Ap001 == Candidate("ap-001", Cents(850), 18, DescFornecedorFat, <<"FAT001", "AP001">>)

\* 15.00 above the debit: beyond the absolute, within the percent tolerance.
Ap002 == Candidate("ap-002", Cents(865), 18, DescFornecedorFat, <<"FAT001", "AP002">>)

\* A payable that reads exactly like the receivable ar-001.
Ap003 == Candidate("ap-003", Cents(1500), 15, DescClienteNf, <<"NF001", "AP003">>)

ArCatalog == {Ar001, Ar003, Ar4, ArNoId}

ApCatalog == {Ap001, Ap002, Ap003}

ArFallback == <<Ar001, Ar002>>

ApFallback == <<Ap001>>

\* What the HTTP request of a fetch can come to.
FetchOutcomes(catalog) ==
    {[kind |-> "ok", body |-> b] : b \in DistinctSeqsUpTo(catalog, MaxCands)}
    \cup {[kind |-> "non200", body |-> <<>>], [kind |-> "exception", body |-> <<>>]}

\* _get_ar_invoices / _get_ap_invoices for a batch in which every
\* transaction has a date.
GetInvoices(transactions, outcome, fallback) ==
    IF transactions = <<>> THEN <<>>
    ELSE IF outcome.kind = "exception" THEN <<>>
    ELSE IF outcome.kind = "ok" THEN outcome.body
    ELSE fallback

(* ------------------------------------------------------------------ *)
(* StatementParser (app/processors/statement_parser.py)                *)
(* ------------------------------------------------------------------ *)

Row(account, fitid, date, amount, description, refs) ==
    [account |-> account, fitid |-> fitid, date |-> date, amount |-> amount,
     description |-> description, refs |-> refs]

RowCredit == <<15, Cents(1500), DescClienteNf, <<"NF001">> >>

RowDebit == <<18, 0 - Cents(850), DescFornecedorFat, <<"FAT001">> >>

\* 20.00 above ar-001: beyond the absolute, within the percent tolerance.
RowCreditOff == <<15, Cents(1520), DescClienteNf, <<"NF001">> >>

CsvRows == {Row("", 0, r[1], r[2], r[3], r[4]) : r \in {RowCredit, RowDebit, RowCreditOff}}

\* A statement transaction of an OFX file, with its account and its FITID.
OfxRows ==
    {Row(a, f, r[1], r[2], r[3], r[4]) :
        a \in {"A", "B"}, f \in {1, 2}, r \in {RowCredit, RowCreditOff}}

\* An OFX file lists its accounts one after the other, and a FITID is unique
\* within its account (not across accounts).
OfxStatements ==
    {s \in SeqsUpTo(OfxRows, MaxRows) :
        \A i, j \in 1..Len(s) :
            i < j => /\ s[i].account # "B" \/ s[j].account # "A"
                     /\ s[i].account = s[j].account => s[i].fitid # s[j].fitid}

StatementFile(format, empty, columns_ok, rows) ==
    [format |-> format, empty |-> empty, columns_ok |-> columns_ok, rows |-> rows]

NoFile == StatementFile("", TRUE, TRUE, <<>>)

Files ==
    {StatementFile(f, TRUE, TRUE, <<>>) : f \in {"csv", "ofx", "pdf", "txt"}}
    \cup {StatementFile("pdf", FALSE, TRUE, <<>>)}
    \cup {StatementFile("csv", FALSE, FALSE, <<>>)}
    \cup {StatementFile("csv", FALSE, TRUE, r) : r \in SeqsUpTo(CsvRows, MaxRows)}
    \cup {StatementFile("ofx", FALSE, TRUE, r) : r \in OfxStatements}

\* refs: what _extract_reference_numbers finds in description + reference
Transaction(id, row) ==
    [id |-> id, date |-> row.date, amount |-> row.amount,
     description |-> row.description, refs |-> row.refs,
     account_id |-> row.account]

\* f"csv_{index}_{date}_{abs(amount)}", index counted from 0
ParseCsv(rows) ==
    [i \in 1..Len(rows) |->
        Transaction(<<"csv", i - 1, rows[i].date, Abs(rows[i].amount)>>, rows[i])]

\* f"ofx_{transaction.id}_{date}"
ParseOfx(rows) ==
    [i \in 1..Len(rows) |->
        Transaction(<<"ofx", rows[i].fitid, rows[i].date>>, rows[i])]

\* The simulated extraction: the same two transactions for every file.
ParsePdf ==
    << Transaction(<<"pdf", 1, 20240118>>,
                   Row("", 0, 18, Cents(1500), DescTed, <<"TED001">>)),
       Transaction(<<"pdf", 2, 20240119>>,
                   Row("", 0, 19, 0 - Cents(850), DescPagamento, <<"PAG001">>)) >>

\* _parse_amount works on the characters of the cell.
DigitChars == {"0", "1", "2", "3", "4", "5", "6", "7", "8", "9"}

DigitValue(c) ==
    CASE c = "0" -> 0 [] c = "1" -> 1 [] c = "2" -> 2 [] c = "3" -> 3 [] c = "4" -> 4
      [] c = "5" -> 5 [] c = "6" -> 6 [] c = "7" -> 7 [] c = "8" -> 8 [] c = "9" -> 9

RECURSIVE DigitsToInt(_)
DigitsToInt(digits) ==
    IF digits = <<>> THEN 0
    ELSE DigitsToInt(SubSeq(digits, 1, Len(digits) - 1)) * 10
         + DigitValue(digits[Len(digits)])

CountOf(s, ch) == Cardinality({i \in 1..Len(s) : s[i] = ch})

\* str.replace(ch, '')
Without(s, ch) == SelectSeq(s, LAMBDA c : c # ch)

\* str.replace(old, new) for single characters
Replaced(s, old, new) == [i \in 1..Len(s) |-> IF s[i] = old THEN new ELSE s[i]]

PositionOf(s, ch) == CHOOSE i \in 1..Len(s) : s[i] = ch /\ \A j \in 1..(i - 1) : s[j] # ch

\* re.sub(r'[^\d\,\.\-\+]', '', amount_str)
CleanAmount(s) == SelectSeq(s, LAMBDA c : c \in DigitChars \cup {",", ".", "-", "+"})

\* The separator rule read as "a lone comma is always the decimal mark".
SeparatorsCommaAlwaysDecimal(amount_clean) ==
    IF CountOf(amount_clean, ",") > 0 /\ CountOf(amount_clean, ".") > 0
    THEN Replaced(Without(amount_clean, "."), ",", ".")
    ELSE IF CountOf(amount_clean, ",") > 0
    THEN Replaced(amount_clean, ",", ".")
    ELSE amount_clean

\* The if/elif on the separators: with both, the dots go and the comma
\* becomes the point; with commas only, split(','): two parts and a second
\* part of at most two characters make the comma the point, anything else
\* drops the commas.
Separators(amount_clean) ==
    IF CountOf(amount_clean, ",") > 0 /\ CountOf(amount_clean, ".") > 0
    THEN Replaced(Without(amount_clean, "."), ",", ".")
    ELSE IF CountOf(amount_clean, ",") > 0
    THEN IF CountOf(amount_clean, ",") = 1
            /\ Len(amount_clean) - PositionOf(amount_clean, ",") <= 2
         THEN Replaced(amount_clean, ",", ".")
         ELSE Without(amount_clean, ",")
    ELSE amount_clean

\* float(text) for a text of digits, points and signs: an optional sign,
\* then digits with at most one point and at least one digit; anything
\* else is ValueError.  The value is mantissa / 10^decimals.
FloatOf(text) ==
    LET signed == text # <<>> /\ text[1] \in {"-", "+"}
        body == IF signed THEN Tail(text) ELSE text
        digits == Without(body, ".")
        valid == /\ digits # <<>>
                 /\ \A i \in 1..Len(digits) : digits[i] \in DigitChars
                 /\ CountOf(body, ".") <= 1
    IN IF ~valid THEN [raised |-> TRUE, mantissa |-> 0, decimals |-> 0, parsed |-> TRUE]
       ELSE [raised |-> FALSE,
             mantissa |-> (IF signed /\ text[1] = "-" THEN 0 - 1 ELSE 1)
                          * DigitsToInt(digits),
             decimals |-> IF CountOf(body, ".") = 0 THEN 0
                          ELSE Len(body) - PositionOf(body, "."),
             parsed |-> TRUE]

\* _parse_amount(amount_str)
ParseAmount(cell) == FloatOf(Separators(CleanAmount(cell)))

ParseError == [raised |-> TRUE, transactions |-> <<>>]

Parsed(transactions) == [raised |-> FALSE, transactions |-> transactions]

\* A parser that answers an empty list where parse_statement raises.
ParseStatementSwallowing(file) ==
    IF file.format = "pdf" THEN {Parsed(ParsePdf)}
    ELSE IF file.format = "csv"
         THEN IF file.empty \/ ~file.columns_ok THEN {Parsed(<<>>)}
              ELSE {Parsed(ParseCsv(file.rows))}
    ELSE IF file.format = "ofx"
         THEN IF file.empty THEN {Parsed(<<>>)}
              ELSE {Parsed(ParseOfx(file.rows))}
    ELSE {Parsed(<<>>)}

\* parse_statement: what it returns or that it raises.  pandas raises
\* EmptyDataError on a file of zero bytes; what ofxparse makes of one is the
\* library's business: an error, or a statement without accounts.
ParseStatementOutcomes(file) ==
    IF file.format = "pdf" THEN {Parsed(ParsePdf)}
    ELSE IF file.format = "csv"
         THEN IF file.empty \/ ~file.columns_ok THEN {ParseError}
              ELSE {Parsed(ParseCsv(file.rows))}
    ELSE IF file.format = "ofx"
         THEN IF file.empty THEN {ParseError, Parsed(<<>>)}
              ELSE {Parsed(ParseOfx(file.rows))}
    ELSE {ParseError}

\* validate_statement_file: defined by the parser, called by no one.
ValidateStatementFile(file) ==
    IF file.empty THEN [valid |-> FALSE, error |-> "Arquivo vazio"]
    ELSE IF file.format \notin {"csv", "pdf", "ofx"}
         THEN [valid |-> FALSE, error |-> "Formato nao suportado"]
    ELSE [valid |-> TRUE, error |-> ""]

(* ------------------------------------------------------------------ *)
(* APWorkflowEngine (services/ap-workflow/app)                         *)
(* ------------------------------------------------------------------ *)

\* The accounts-payable workflow.  Money is in
\* cents, dates are day numbers, quantities are whole units and the
\* matching score is in whole points of 100.

\* settings.price_tolerance_percent, quantity_tolerance_percent and
\* date_tolerance_days
PriceTolerancePercent == 5

QuantityTolerancePercent == 2

DateToleranceDays == 7

\* settings.auto_approval_limit, manager_approval_limit and
\* director_approval_limit
AutoApprovalLimit == Cents(1000)

ManagerApprovalLimit == Cents(10000)

DirectorApprovalLimit == Cents(50000)

\* ExceptionHandler.auto_resolve_threshold * 100
AutoResolveThresholdPercent == 5

\* The matching score process_approval asks of an automatic approval.
MinimumMatchingScore == 95

\* A date string datetime.fromisoformat rejects.
Malformed == 0 - 2

\* MatchingException: variance_percent is variance_num / variance_den in
\* percent, with variance_den = 0 where the code leaves it None; a
\* variance_amount the code leaves None is 0 (both are falsy).
MatchingException(type, severity, variance_amount, variance_num, variance_den) ==
    [type |-> type, severity |-> severity, variance_amount |-> variance_amount,
     variance_num |-> variance_num, variance_den |-> variance_den]

\* _validate_invoice: the required fields are truthy, the total is above
\* zero, both dates parse and the due date is not before the invoice date.
ValidateInvoice(invoice_data) ==
    IF \/ invoice_data.id = ""
       \/ invoice_data.supplier_id = ""
       \/ invoice_data.total_amount = 0
       \/ invoice_data.invoice_date = None
       \/ invoice_data.due_date = None
    THEN [is_valid |-> FALSE, error |-> "Campos obrigatorios ausentes"]
    ELSE IF invoice_data.total_amount <= 0
    THEN [is_valid |-> FALSE, error |-> "Valor total deve ser maior que zero"]
    ELSE IF Malformed \in {invoice_data.invoice_date, invoice_data.due_date}
    THEN [is_valid |-> FALSE, error |-> "Formato de data invalido"]
    ELSE IF invoice_data.due_date < invoice_data.invoice_date
    THEN [is_valid |-> FALSE, error |-> "Data de vencimento anterior"]
    ELSE [is_valid |-> TRUE, error |-> ""]

NoPurchaseOrder == [found |-> FALSE, supplier_id |-> "", total_amount |-> 0, items |-> <<>>]

\* _find_purchase_order: the arguments of client.get hold
\* date.timedelta(days=90), and date is datetime.date, which has no
\* attribute timedelta; the AttributeError is raised inside the try before
\* the request is sent and the except branch returns None.  Neither the
\* answer of the Core API nor the simulated order after the request is
\* ever reached.
FindPurchaseOrder(invoice_data) == NoPurchaseOrder

\* _find_goods_receipt: the simulated receipt of the whole order, dated
\* today.
FindGoodsReceipt(purchase_order, today) ==
    [found |-> TRUE, received_date |-> today, items |-> purchase_order.items]

\* _compare_prices: the variance is a Decimal and the tolerance the float
\* 0.05, a little above 5%; the severity compares with the float 0.1, a
\* little above 10%, so a variance of exactly 10% is still medium.
ComparePrices(invoice, purchase_order) ==
    LET invoice_amount == invoice.total_amount
        po_amount == purchase_order.total_amount
        difference == Abs(invoice_amount - po_amount)
    IN IF po_amount > 0 /\ difference * 100 > PriceTolerancePercent * po_amount
       THEN <<MatchingException("price_mismatch",
                                IF difference * 10 <= po_amount THEN "medium" ELSE "high",
                                difference, difference * 100, po_amount)>>
       ELSE <<>>

\* _compare_quantities, the pass of its loop for item i: a received
\* quantity is the ordered one, the receipt carrying the items of the order.
QuantityExceptions(invoice_qty, po_qty, gr_qty) ==
    (IF invoice_qty > gr_qty
     THEN <<MatchingException("quantity_over_receipt", "high",
                              invoice_qty - gr_qty, 0, 0)>>
     ELSE <<>>)
    \o
    (IF /\ po_qty > 0
        /\ Abs(invoice_qty - po_qty) * 100 > QuantityTolerancePercent * po_qty
     THEN <<MatchingException("quantity_mismatch", "medium",
                              Abs(invoice_qty - po_qty),
                              Abs(invoice_qty - po_qty) * 100, po_qty)>>
     ELSE <<>>)

RECURSIVE CompareQuantitiesFrom(_, _, _, _)
CompareQuantitiesFrom(i, invoice_items, po_items, gr_items) ==
    IF i > Len(invoice_items) THEN <<>>
    ELSE (IF i <= Len(po_items) /\ i <= Len(gr_items)
          THEN QuantityExceptions(invoice_items[i], po_items[i], po_items[i])
          ELSE <<>>)
         \o CompareQuantitiesFrom(i + 1, invoice_items, po_items, gr_items)

\* _compare_quantities
CompareQuantities(invoice, purchase_order, goods_receipt) ==
    CompareQuantitiesFrom(1, invoice.items, purchase_order.items, goods_receipt.items)

\* _compare_dates
CompareDates(invoice, purchase_order, goods_receipt) ==
    LET days_diff == goods_receipt.received_date - invoice.invoice_date
    IN IF invoice.invoice_date < goods_receipt.received_date
          /\ days_diff > DateToleranceDays
       THEN <<MatchingException("date_sequence_error", "medium", days_diff, 0, 0)>>
       ELSE <<>>

\* _compare_suppliers
CompareSuppliers(invoice, purchase_order) ==
    IF invoice.supplier_id # purchase_order.supplier_id
    THEN <<MatchingException("supplier_mismatch", "high", 0, 0, 0)>>
    ELSE <<>>

\* _calculate_matching_score
RECURSIVE Penalty(_)
Penalty(exceptions) ==
    IF exceptions = <<>> THEN 0
    ELSE (CASE Head(exceptions).severity = "high" -> 30
            [] Head(exceptions).severity = "medium" -> 15
            [] OTHER -> 5)
         + Penalty(Tail(exceptions))

CalculateMatchingScore(exceptions) ==
    IF exceptions = <<>> THEN 100 ELSE MaxOf(0, 100 - Penalty(exceptions))

\* MatchingResult; matching_score is 0.0 where the constructor is not
\* given one.
MatchingResult(matched, has_exceptions, exceptions, matching_score) ==
    [matched |-> matched, has_exceptions |-> has_exceptions,
     exceptions |-> exceptions, matching_score |-> matching_score]

\* perform_matching from the answer of _find_purchase_order on.
PerformMatchingWith(invoice_data, purchase_order, today) ==
    IF ~purchase_order.found
    THEN MatchingResult(FALSE, TRUE,
             <<MatchingException("no_purchase_order", "high", 0, 0, 0)>>, 0)
    ELSE LET goods_receipt == FindGoodsReceipt(purchase_order, today)
             exceptions ==
                 ComparePrices(invoice_data, purchase_order)
                 \o CompareQuantities(invoice_data, purchase_order, goods_receipt)
                 \o CompareDates(invoice_data, purchase_order, goods_receipt)
                 \o CompareSuppliers(invoice_data, purchase_order)
         IN MatchingResult(exceptions = <<>>, exceptions # <<>>, exceptions,
                           CalculateMatchingScore(exceptions))

\* perform_matching
PerformMatching(invoice_data, today) ==
    PerformMatchingWith(invoice_data, FindPurchaseOrder(invoice_data), today)

\* _try_resolve_exception with _resolve_price_mismatch,
\* _resolve_quantity_mismatch and _resolve_date_issue: whether the
\* exception is resolved.
TryResolveException(exception) ==
    LET within_threshold ==
            /\ exception.variance_den > 0
            /\ exception.variance_num > 0
            /\ exception.variance_num <= AutoResolveThresholdPercent * exception.variance_den
    IN CASE exception.type = "price_mismatch" ->
                \/ within_threshold
                \/ exception.variance_amount > 0 /\ exception.variance_amount <= Cents(1)
         [] exception.type = "quantity_mismatch" ->
                \/ within_threshold
                \/ exception.variance_amount = 1
         [] exception.type = "date_sequence_error" ->
                exception.variance_amount > 0
                /\ exception.variance_amount <= DateToleranceDays
         [] OTHER -> FALSE

\* handle_exceptions: auto_resolved is len(manual_review) == 0.
HandleExceptions(exceptions) ==
    [auto_resolved |-> \A i \in 1..Len(exceptions) : TryResolveException(exceptions[i]),
     manual_review_count |->
         Cardinality({i \in 1..Len(exceptions) : ~TryResolveException(exceptions[i])})]

\* _has_critical_exceptions
HasCriticalExceptions(exceptions) ==
    \E i \in 1..Len(exceptions) :
        \/ exceptions[i].type \in {"no_purchase_order", "supplier_mismatch",
                                   "quantity_over_receipt"}
        \/ exceptions[i].severity = "high"

\* _determine_approval_level: the elif on a score below 80 follows the if
\* on a score below 90 and is never taken.
DetermineApprovalLevel(amount, matching_result) ==
    LET score_penalty == IF matching_result.matching_score < 90 THEN 1 ELSE 0
        base_level == IF amount <= ManagerApprovalLimit THEN 1
                      ELSE IF amount <= DirectorApprovalLimit THEN 2
                      ELSE 3
        final_level == MinOf(3, base_level + score_penalty)
    IN CASE final_level = 1 -> "supervisor"
         [] final_level = 2 -> "manager"
         [] OTHER -> "director"

ApprovalResult(auto_approved, requires_manual_approval, required_level) ==
    [auto_approved |-> auto_approved,
     requires_manual_approval |-> requires_manual_approval,
     required_level |-> required_level]

\* process_approval with the score and the exceptions left out of the
\* automatic approval
ProcessApprovalByAmountOnly(invoice_data, matching_result) ==
    IF invoice_data.total_amount <= AutoApprovalLimit
    THEN ApprovalResult(TRUE, FALSE, "")
    ELSE ApprovalResult(FALSE, TRUE,
             DetermineApprovalLevel(invoice_data.total_amount, matching_result))

\* process_approval
ProcessApproval(invoice_data, matching_result) ==
    IF /\ matching_result.has_exceptions
       /\ HasCriticalExceptions(matching_result.exceptions)
    THEN ApprovalResult(FALSE, TRUE, "manager")
    ELSE IF /\ invoice_data.total_amount <= AutoApprovalLimit
            /\ matching_result.matching_score >= MinimumMatchingScore
    THEN ApprovalResult(TRUE, FALSE, "")
    ELSE ApprovalResult(FALSE, TRUE,
             DetermineApprovalLevel(invoice_data.total_amount, matching_result))

NoMatching == MatchingResult(FALSE, FALSE, <<>>, 0)

\* The InvoiceWorkflow process_invoice builds, with what the run did on
\* the way: is_valid is validation_result["is_valid"], matching_ran says
\* that matching_result is not None, payment_requested that
\* _schedule_payment was called, payment_scheduled is the key of that name
\* in the result (absent from an error result, FALSE here).
NewWorkflow ==
    [status |-> "processing", is_valid |-> FALSE, matching_ran |-> FALSE,
     matching_result |-> NoMatching, exceptions |-> <<>>, approver_level |-> "",
     payment_requested |-> FALSE, payment_scheduled |-> FALSE]

\* _finalize_workflow: workflow.payment_date is None or the string
\* _schedule_payment returned in "payment_date"; the result calls
\* isoformat() on it when it is set, a string has no such method, and the
\* except branch returns the error result.
FinalizeWorkflow(workflow) ==
    IF workflow.payment_requested
    THEN [workflow EXCEPT !.status = "error", !.payment_scheduled = FALSE]
    ELSE workflow

\* process_invoice from the answer of _find_purchase_order on.
ProcessInvoiceWith(invoice_data, purchase_order, today) ==
    LET validation_result == ValidateInvoice(invoice_data)
        matching_result == PerformMatchingWith(invoice_data, purchase_order, today)
        resolution_result == HandleExceptions(matching_result.exceptions)
        approval_result == ProcessApproval(invoice_data, matching_result)
        matched == [NewWorkflow EXCEPT !.is_valid = TRUE, !.matching_ran = TRUE,
                                       !.matching_result = matching_result]
    IN IF ~validation_result.is_valid
       THEN FinalizeWorkflow([NewWorkflow EXCEPT !.status = "validation_failed"])
       ELSE IF matching_result.has_exceptions /\ ~resolution_result.auto_resolved
       THEN FinalizeWorkflow([matched EXCEPT !.status = "pending_exception_review",
                                            !.exceptions = matching_result.exceptions])
       ELSE IF approval_result.requires_manual_approval
       THEN FinalizeWorkflow([matched EXCEPT !.status = "pending_approval",
                                            !.approver_level = approval_result.required_level])
       ELSE IF approval_result.auto_approved
       THEN FinalizeWorkflow([matched EXCEPT !.status = "approved_payment_scheduled",
                                            !.payment_requested = TRUE,
                                            !.payment_scheduled = TRUE])
       ELSE FinalizeWorkflow(matched)

\* process_invoice
ProcessInvoiceResult(invoice_data, today) ==
    ProcessInvoiceWith(invoice_data, FindPurchaseOrder(invoice_data), today)

(* ------------------------------------------------------------------ *)
(* ReconciliationEngine (app/reconciliation_engine.py)                 *)
(* ------------------------------------------------------------------ *)

\* `if transaction_amount > 0:` chooses the candidate list ...
\* The side selection with the two sides exchanged.
CandidatesSwapped(transaction, ar, ap) ==
    IF transaction.amount > 0 THEN ap ELSE ar

CandidatesFor(transaction, ar, ap) ==
    IF transaction.amount > 0 THEN ar ELSE ap

\* ... and the match type.
MatchTypeOf(transaction) ==
    IF transaction.amount > 0 THEN "receivable" ELSE "payable"

\* The acceptance test taken at the similarity floor instead.
AutoAcceptedAtFloor(bm) ==
    bm.found /\ bm.confidence >= SimilarityThreshold

\* `if best_match and best_match["confidence"] >= settings.auto_match_threshold`
AutoAccepted(bm) ==
    bm.found /\ bm.confidence >= AutoMatchThreshold

TransactionMatch(transaction, bm) ==
    [transaction_id |-> transaction.id,
     invoice_id |-> bm.invoice.id,
     confidence_score |-> bm.confidence,
     match_type |-> MatchTypeOf(transaction),
     matched_amount |-> Abs(transaction.amount),
     match_reason |-> bm.reason]

\* One pass of the loop body of _perform_automatic_matching.  Reading
\* best_match["invoice"]["id"] of a record without that key raises KeyError,
\* which the except branch of the loop logs.
MatchOne(transaction, ar, ap) ==
    LET bm == FindBestMatch(transaction, CandidatesFor(transaction, ar, ap)) IN
    IF ~AutoAccepted(bm)
    THEN [best_match |-> bm, raised |-> FALSE, new |-> <<>>]
    ELSE IF ~bm.invoice.has_id
    THEN [best_match |-> bm, raised |-> TRUE, new |-> <<>>]
    ELSE [best_match |-> bm, raised |-> FALSE,
          new |-> <<TransactionMatch(transaction, bm)>>]

\* A loop that strikes an invoice off the list once a match names it.
CandidatesLeftConsumed(candidates, made) ==
    SelectSeq(candidates, LAMBDA c : \A k \in 1..Len(made) : made[k].invoice_id # c.id)

\* The list a pass of the loop scores against, given the matches made so
\* far: ar_invoices and ap_invoices are read, never changed, by the loop.
CandidatesLeft(candidates, made) == candidates

\* _perform_automatic_matching, the whole loop.
RECURSIVE PerformAutomaticMatching(_, _, _)
PerformAutomaticMatching(txns, ar, ap) ==
    IF txns = <<>> THEN <<>>
    ELSE MatchOne(Head(txns), ar, ap).new \o PerformAutomaticMatching(Tail(txns), ar, ap)

\* detect_discrepancies: the detector is a collaborator of the engine; it
\* answers a list of discrepancies (here their types) or raises.
DetectorOutcomes ==
    {[raised |-> FALSE, discrepancies |-> d] : d \in {<<>>, <<"missing_transaction">>}}
    \cup {[raised |-> TRUE, discrepancies |-> <<>>]}

IsMatched(transaction, ms) ==
    \E k \in 1..Len(ms) : ms[k].transaction_id = transaction.id

\* _generate_reconciliation_report
GenerateReconciliationReport(txns, ms, discs) ==
    LET total_transactions == Len(txns)
        matched_count == Len(ms)
        ar_matches == SelectSeq(ms, LAMBDA m : m.match_type = "receivable")
        ap_matches == SelectSeq(ms, LAMBDA m : m.match_type = "payable")
    IN [total_transactions |-> total_transactions,
        matched_count |-> matched_count,
        unmatched_count |-> total_transactions - matched_count,
        total_credits |->
            SeqSum([i \in 1..Len(txns) |->
                       IF txns[i].amount > 0 THEN txns[i].amount ELSE 0]),
        total_debits |->
            SeqSum([i \in 1..Len(txns) |->
                       IF txns[i].amount < 0 THEN Abs(txns[i].amount) ELSE 0]),
        matched_amount |-> SeqSum([i \in 1..Len(ms) |-> ms[i].matched_amount]),
        ar_matches |-> Len(ar_matches),
        ap_matches |-> Len(ap_matches),
        discrepancies_total |-> Len(discs),
        matches |-> ms,
        unmatched_transactions |->
            SelectSeq(txns, LAMBDA t : ~IsMatched(t, ms))]

NoReport == GenerateReconciliationReport(<<>>, <<>>, <<>>)

ErrorResult(error) == [kind |-> "error", error |-> error]

\* What the caller gets once the report is built.  process_bank_statement
\* logs report['matched_count'], a key the report does not have at its top
\* level: KeyError, caught by its except branch.  reconcile_period returns
\* the report.
ReturnAfterReport(via) ==
    IF via = "statement" THEN ErrorResult("'matched_count'")
    ELSE [kind |-> "report", error |-> ""]

VARIABLES
    pc,              \* where the run stands
    entry,           \* "statement" (process_bank_statement) or "period"
    file,            \* the uploaded file
    parser_invoked,  \* parse_statement has been called in this run
    transactions,    \* the batch
    ar_fetch,        \* how the receivable fetch ended: "", ok, non200, exception
    ap_fetch,        \* the same for the payable fetch
    invoices_ar,
    invoices_ap,
    idx,             \* the loop of _perform_automatic_matching is at transactions[idx]
    best_match,      \* what find_best_match returned last
    matches,
    errlog,          \* the positions whose pass ended in the except branch
    detector_raised,
    discrepancies,
    report_built,    \* _generate_reconciliation_report has returned
    report,
    result,          \* what the caller of the run got
    manual,          \* the call of manual_match and what its lookups answer
    saved,           \* the matches handed to _save_transaction_match
    txn,             \* the transaction handed to _calculate_match_score
    cand,            \* the candidate handed to _calculate_match_score
    score,           \* what _calculate_match_score answered for them
    date_tolerance_after,  \* settings.date_tolerance_after as the matcher holds it
    amount_str,      \* the cell handed to _parse_amount, character by character
    amount,          \* what _parse_amount answered for it
    invoice_data,    \* the invoice handed to process_invoice
    workflow         \* what process_invoice returned for it

vars == <<pc, entry, file, parser_invoked, transactions, ar_fetch, ap_fetch,
          invoices_ar, invoices_ap, idx, best_match, matches, errlog,
          detector_raised, discrepancies, report_built, report, result,
          manual, saved, txn, cand, score, date_tolerance_after,
          amount_str, amount, invoice_data, workflow>>

\* The state outside the statement-processing run.
other_vars == <<manual, saved, txn, cand, score, date_tolerance_after,
                amount_str, amount, invoice_data, workflow>>

NoResult == [kind |-> "none", error |-> ""]

\* A record not looked up, a call not made, a pair not scored.
NotFound == [found |-> FALSE, id |-> "", amount |-> 0]

NoCall == [transaction_id |-> "", invoice_id |-> "", confidence |-> 0,
           transaction |-> NotFound, invoice |-> NotFound]

NoTransaction ==
    [id |-> <<>>, date |-> None, amount |-> 0, description |-> "", refs |-> <<>>,
     account_id |-> ""]

NoCandidate ==
    [id |-> "", has_id |-> FALSE, amount |-> 0, due_date |-> None,
     description |-> "", refs |-> <<>>]

NoScore ==
    [raised |-> FALSE, total_score |-> 0, primary_reason |-> "not scored",
     amount_score |-> 0, date_score |-> 0, description_score |-> 0,
     reference_score |-> 0]

\* The engine as constructed: no run started.
EngineIdle ==
    /\ pc = "idle"
    /\ entry = ""
    /\ file = NoFile
    /\ parser_invoked = FALSE
    /\ transactions = <<>>
    /\ ar_fetch = ""
    /\ ap_fetch = ""
    /\ invoices_ar = <<>>
    /\ invoices_ap = <<>>
    /\ idx = 1
    /\ best_match = NoMatch
    /\ matches = <<>>
    /\ errlog = <<>>
    /\ detector_raised = FALSE
    /\ discrepancies = <<>>
    /\ report_built = FALSE
    /\ report = NoReport
    /\ result = NoResult
    /\ saved = <<>>

\* The FuzzyMatcher was built from the settings as shipped.
SettingsAsShipped == date_tolerance_after = DateToleranceAfter

\* _parse_amount has not been called on its own.
NoAmount == [raised |-> FALSE, mantissa |-> 0, decimals |-> 0, parsed |-> FALSE]

NoCell == amount_str = <<>> /\ amount = NoAmount

NoInvoiceData ==
    [id |-> "", supplier_id |-> "", total_amount |-> 0, invoice_date |-> None,
     due_date |-> None, items |-> <<>>]

NoWorkflow == [NewWorkflow EXCEPT !.status = "none"]

\* process_invoice has not been called.
WorkflowIdle == invoice_data = NoInvoiceData /\ workflow = NoWorkflow

Init ==
    /\ EngineIdle
    /\ SettingsAsShipped
    /\ WorkflowIdle
    /\ NoCell
    /\ manual = NoCall
    /\ txn = NoTransaction
    /\ cand = NoCandidate
    /\ score = NoScore

\* POST /upload-statement (main.py): the extension is all it looks at; the
\* run is queued as a background task.
UploadStatement ==
    /\ pc = "idle"
    /\ \E f \in Files :
        /\ file' = f
        /\ IF f.format \in {"ofx", "csv", "pdf"}
           THEN /\ pc' = "parse"
                /\ entry' = "statement"
                /\ result' = result
           ELSE /\ pc' = "done"
                /\ entry' = "upload"
                /\ result' = [kind |-> "rejected", error |-> "Formato nao suportado"]
    /\ UNCHANGED <<parser_invoked, transactions, ar_fetch, ap_fetch, invoices_ar,
                   invoices_ap, idx, best_match, matches, errlog, detector_raised,
                   discrepancies, report_built, report>>
    /\ UNCHANGED other_vars

\* process_bank_statement, step 1: parse, and stop on an error or on an
\* empty list.
ParseStatement ==
    /\ pc = "parse"
    /\ parser_invoked' = TRUE
    /\ \E out \in ParseStatementOutcomes(file) :
        IF out.raised
        THEN /\ result' = ErrorResult("parse")
             /\ pc' = "done"
             /\ transactions' = transactions
        ELSE IF out.transactions = <<>>
        THEN /\ result' = ErrorResult("Nenhuma transacao encontrada no extrato")
             /\ pc' = "done"
             /\ transactions' = transactions
        ELSE /\ transactions' = out.transactions
             /\ pc' = "fetch_ar"
             /\ result' = result
    /\ UNCHANGED <<entry, file, ar_fetch, ap_fetch, invoices_ar, invoices_ap, idx,
                   best_match, matches, errlog, detector_raised, discrepancies,
                   report_built, report>>
    /\ UNCHANGED other_vars

\* step 2a: _get_ar_invoices
GetArInvoices ==
    /\ pc = "fetch_ar"
    /\ \E out \in FetchOutcomes(ArCatalog) :
        /\ ar_fetch' = out.kind
        /\ invoices_ar' = GetInvoices(transactions, out, ArFallback)
    /\ pc' = "fetch_ap"
    /\ UNCHANGED <<entry, file, parser_invoked, transactions, ap_fetch, invoices_ap,
                   idx, best_match, matches, errlog, detector_raised, discrepancies,
                   report_built, report, result>>
    /\ UNCHANGED other_vars

\* step 2b: _get_ap_invoices
GetApInvoices ==
    /\ pc = "fetch_ap"
    /\ \E out \in FetchOutcomes(ApCatalog) :
        /\ ap_fetch' = out.kind
        /\ invoices_ap' = GetInvoices(transactions, out, ApFallback)
    /\ pc' = "matching"
    /\ UNCHANGED <<entry, file, parser_invoked, transactions, ar_fetch, invoices_ar,
                   idx, best_match, matches, errlog, detector_raised, discrepancies,
                   report_built, report, result>>
    /\ UNCHANGED other_vars

\* reconcile_period: the three lookups are stubs that return [].
ReconcilePeriod ==
    /\ pc = "idle"
    /\ entry' = "period"
    /\ pc' = "matching"
    /\ UNCHANGED <<file, parser_invoked, transactions, ar_fetch, ap_fetch, invoices_ar,
                   invoices_ap, idx, best_match, matches, errlog, detector_raised,
                   discrepancies, report_built, report, result>>
    /\ UNCHANGED other_vars

\* step 3: one pass of the loop of _perform_automatic_matching
MatchTransaction ==
    /\ pc = "matching"
    /\ idx <= Len(transactions)
    /\ LET step == MatchOne(transactions[idx],
                         CandidatesLeft(invoices_ar, matches),
                         CandidatesLeft(invoices_ap, matches)) IN
        /\ best_match' = step.best_match
        /\ matches' = matches \o step.new
        /\ errlog' = IF step.raised THEN Append(errlog, idx) ELSE errlog
    /\ idx' = idx + 1
    /\ UNCHANGED <<pc, entry, file, parser_invoked, transactions, ar_fetch, ap_fetch,
                   invoices_ar, invoices_ap, detector_raised, discrepancies,
                   report_built, report, result>>
    /\ UNCHANGED other_vars

\* step 4: the loop is over, detect_discrepancies is called
DetectDiscrepancies ==
    /\ pc = "matching"
    /\ idx > Len(transactions)
    /\ \E out \in DetectorOutcomes :
        IF out.raised
        THEN /\ detector_raised' = TRUE
             /\ discrepancies' = discrepancies
             /\ result' = ErrorResult("detector")
             /\ pc' = "done"
        ELSE /\ detector_raised' = FALSE
             /\ discrepancies' = out.discrepancies
             /\ result' = result
             /\ pc' = "report"
    /\ UNCHANGED <<entry, file, parser_invoked, transactions, ar_fetch, ap_fetch,
                   invoices_ar, invoices_ap, idx, best_match, matches, errlog,
                   report_built, report>>
    /\ UNCHANGED other_vars

\* step 5: _generate_reconciliation_report, and the return
GenerateReport ==
    /\ pc = "report"
    /\ report' = GenerateReconciliationReport(transactions, matches, discrepancies)
    /\ report_built' = TRUE
    /\ result' = ReturnAfterReport(entry)
    /\ pc' = "done"
    /\ UNCHANGED <<entry, file, parser_invoked, transactions, ar_fetch, ap_fetch,
                   invoices_ar, invoices_ap, idx, best_match, matches, errlog,
                   detector_raised, discrepancies>>
    /\ UNCHANGED other_vars

Next ==
    \/ UploadStatement
    \/ ParseStatement
    \/ GetArInvoices
    \/ GetApInvoices
    \/ ReconcilePeriod
    \/ MatchTransaction
    \/ DetectDiscrepancies
    \/ GenerateReport

Spec == Init /\ [][Next]_vars

(* ------------------------------------------------------------------ *)
(* The scorer on its own: _calculate_match_score applied to one        *)
(* transaction and one candidate.                                      *)
(* ------------------------------------------------------------------ *)

\* Description and reference tokens of a transaction, as
\* _normalize_description and _extract_reference_numbers leave
\* "Cliente ABC Ltda NF-001", "Cliente ABC Ltda", "Cliente ABC Ltda" with
\* reference "NF-001", and "PIX RECEBIDO CLIENTE ABC LTDA" with reference
\* "NF-4521".
ScorerTransactionTexts ==
    {<<DescClienteNf, <<"NF001">> >>, <<DescCliente, <<>> >>,
     <<DescCliente, <<"NF001">> >>, <<DescPix, <<"NF4521">> >>}

\* Id, description and reference tokens of a candidate: customer
\* "Cliente ABC Ltda" with invoice number "NF-001", "" (id ar-001 or ar-4)
\* or "4521" (id ar-1), and a record without names.
ScorerCandidateTexts ==
    {<<"ar-001", DescClienteNf, <<"NF001", "AR001">> >>,
     <<"ar-001", DescCliente, <<"AR001">> >>,
     <<"ar-4", DescCliente, <<>> >>,
     <<"ar-1", DescCliente4521, <<>> >>,
     <<"7", "", <<>> >>}

ScorerCandidateAmounts == {0, Cents(20), Cents(1000)}

\* Differences in cents: none, a cent, around the absolute tolerance, the
\* percent tolerance of 1000.00 and a cent more, 30 percent of 1000.00.
ScorerDifferences ==
    {0, 1, Cents(AmountToleranceAbsolute) - 1, Cents(AmountToleranceAbsolute),
     Cents(AmountToleranceAbsolute) + 1, Cents(AmountToleranceAbsolute + 1),
     Cents(20), Cents(20) + 1, Cents(300)}

ScorerAmounts ==
    {p \in {<<c + d, c>> : c \in ScorerCandidateAmounts, d \in ScorerDifferences}
           \cup {<<c - d, c>> : c \in ScorerCandidateAmounts, d \in ScorerDifferences} :
        p[1] > 0}

\* 2024-02-10 is day 41.
ScorerDates ==
    {<<41, d>> : d \in {None, 41, 38, 48, 49, 51, 52, 30}}

ScorerInit ==
    /\ EngineIdle
    /\ SettingsAsShipped
    /\ WorkflowIdle
    /\ NoCell
    /\ manual = NoCall
    /\ \E a \in ScorerAmounts, d \in ScorerDates,
          t \in ScorerTransactionTexts, c \in ScorerCandidateTexts :
        /\ txn = Transaction(<<"csv", 0, d[1], a[1]>>, Row("", 0, d[1], a[1], t[1], t[2]))
        /\ cand = Candidate(c[1], a[2], d[2], c[2], c[3])
    /\ score = NoScore

\* _calculate_match_score(transaction, candidate, ...)
ScorePair ==
    /\ score = NoScore
    /\ txn # NoTransaction
    /\ score' = CalculateMatchScore(txn, cand)
    /\ UNCHANGED <<pc, entry, file, parser_invoked, transactions, ar_fetch, ap_fetch,
                   invoices_ar, invoices_ap, idx, best_match, matches, errlog,
                   detector_raised, discrepancies, report_built, report, result,
                   manual, saved, txn, cand, date_tolerance_after,
                   amount_str, amount, invoice_data, workflow>>

ScorerNext == ScorePair

ScorerSpec == ScorerInit /\ [][ScorerNext]_vars

\* Reference tokens as _extract_reference_numbers returns them (upper
\* case, no hyphen, no duplicates): two invoice numbers one digit apart,
\* a shorter one, and the token of an id.
RefTokens == {"NF1001", "NF1002", "NF001", "AR001"}

RefLists == DistinctSeqsUpTo(RefTokens, MaxRefs)

\* A pair equal in amount, date and description; only the reference tokens
\* of the two sides vary.
RefInit ==
    /\ EngineIdle
    /\ SettingsAsShipped
    /\ WorkflowIdle
    /\ NoCell
    /\ manual = NoCall
    /\ \E t \in RefLists, c \in RefLists :
        /\ txn = Transaction(<<"csv", 0, 41, Cents(1000)>>,
                             Row("", 0, 41, Cents(1000), DescCliente, t))
        /\ cand = Candidate("7", Cents(1000), 41, DescCliente, c)
    /\ score = NoScore

RefSpec == RefInit /\ [][ScorerNext]_vars

\* Values date_tolerance_after may be configured to (10 as shipped).
DateTolerances == {3, 7, 10, 14, 15, 16, 30}

\* The candidate is dated up to MaxDays days before or after the
\* transaction.
DateInit ==
    /\ EngineIdle
    /\ date_tolerance_after \in DateTolerances
    /\ WorkflowIdle
    /\ NoCell
    /\ manual = NoCall
    /\ \E d \in (0 - MaxDays)..MaxDays :
        /\ txn = Transaction(<<"csv", 0, 41, Cents(1000)>>,
                             Row("", 0, 41, Cents(1000), DescCliente, <<>>))
        /\ cand = Candidate("7", Cents(1000), 41 + d, DescCliente, <<>>)
    /\ score = NoScore

\* _calculate_date_score(txn_date, candidate_date) alone
ScoreDate ==
    /\ score = NoScore
    /\ txn # NoTransaction
    /\ score' = [NoScore EXCEPT
                    !.primary_reason = "date only",
                    !.date_score = DateScoreAt(Abs(txn.date - cand.due_date),
                                               date_tolerance_after)]
    /\ UNCHANGED <<pc, entry, file, parser_invoked, transactions, ar_fetch, ap_fetch,
                   invoices_ar, invoices_ap, idx, best_match, matches, errlog,
                   detector_raised, discrepancies, report_built, report, result,
                   manual, saved, txn, cand, date_tolerance_after,
                   amount_str, amount, invoice_data, workflow>>

DateNext == ScoreDate

DateSpec == DateInit /\ [][DateNext]_vars

\* The characters a cell is drawn from: two digits, the two separators, a
\* sign and a character the parser drops.
AmountChars == {"1", "5", ",", ".", "-", " "}

\* Cells of bank exports: "1.234,56", "1234,56", "1,234", "-1.234,56", "R$ 1.234,56" and "1,234.56".
AmountExamples ==
    {<<"1", ".", "2", "3", "4", ",", "5", "6">>,
     <<"1", "2", "3", "4", ",", "5", "6">>,
     <<"1", ",", "2", "3", "4">>,
     <<"-", "1", ".", "2", "3", "4", ",", "5", "6">>,
     <<"R", "$", " ", "1", ".", "2", "3", "4", ",", "5", "6">>,
     <<"1", ",", "2", "3", "4", ".", "5", "6">>}

AmountCells == SeqsUpTo(AmountChars, MaxCell) \cup AmountExamples

AmountInit ==
    /\ EngineIdle
    /\ SettingsAsShipped
    /\ WorkflowIdle
    /\ manual = NoCall
    /\ txn = NoTransaction
    /\ cand = NoCandidate
    /\ score = NoScore
    /\ amount_str \in AmountCells
    /\ amount = NoAmount

\* _parse_amount(amount_str) alone
ParseAmountCell ==
    /\ ~amount.parsed
    /\ pc = "idle"
    /\ amount' = ParseAmount(amount_str)
    /\ UNCHANGED <<pc, entry, file, parser_invoked, transactions, ar_fetch, ap_fetch,
                   invoices_ar, invoices_ap, idx, best_match, matches, errlog,
                   detector_raised, discrepancies, report_built, report, result,
                   manual, saved, txn, cand, score, date_tolerance_after,
                   amount_str, invoice_data, workflow>>

AmountNext == ParseAmountCell

AmountSpec == AmountInit /\ [][AmountNext]_vars

(* ------------------------------------------------------------------ *)
(* process_invoice: one invoice through the workflow                   *)
(* ------------------------------------------------------------------ *)

\* The invoices handed to process_invoice.
InvoiceIds == {"", "inv-1"}

SupplierIds == {"", "s1"}

InvoiceTotals ==
    {0 - Cents(5), 0, 1052, Cents(500), Cents(530), Cents(1000), Cents(1000) + 1,
     Cents(5000)}

InvoiceDates == {None, Malformed, 10, 25}

DueDates == {None, Malformed, 5, 40}

ItemLists == {<<>>, <<10>>, <<9>>, <<11>>, <<5>>}

InvoiceInputs ==
    [id : InvoiceIds, supplier_id : SupplierIds, total_amount : InvoiceTotals,
     invoice_date : InvoiceDates, due_date : DueDates, items : ItemLists]

\* The day the workflow runs, which dates the simulated goods receipt.
Todays == {15, 30}

\* The purchase orders a lookup could answer with.
PurchaseOrders ==
    [found : {TRUE}, supplier_id : {"s1", "s2"},
     total_amount : {0, Cents(10), Cents(500), Cents(1000), Cents(5000)},
     items : {<<>>, <<10>>, <<10, 10>>}]

WorkflowInit ==
    /\ EngineIdle
    /\ SettingsAsShipped
    /\ NoCell
    /\ manual = NoCall
    /\ txn = NoTransaction
    /\ cand = NoCandidate
    /\ score = NoScore
    /\ invoice_data \in InvoiceInputs
    /\ workflow = NoWorkflow

\* process_invoice(invoice_data)
ProcessInvoice ==
    /\ workflow = NoWorkflow
    /\ pc = "idle"
    /\ \E today \in Todays :
        workflow' = ProcessInvoiceResult(invoice_data, today)
    /\ UNCHANGED <<pc, entry, file, parser_invoked, transactions, ar_fetch, ap_fetch,
                   invoices_ar, invoices_ap, idx, best_match, matches, errlog,
                   detector_raised, discrepancies, report_built, report, result,
                   manual, saved, txn, cand, score, date_tolerance_after,
                   amount_str, amount, invoice_data>>

WorkflowNext == ProcessInvoice

WorkflowSpec == WorkflowInit /\ [][WorkflowNext]_vars

(* ------------------------------------------------------------------ *)
(* The matching loop alone                                             *)
(* ------------------------------------------------------------------ *)

\* process_bank_statement on entry to _perform_automatic_matching: a
\* statement was parsed to a batch that is not empty and the two fetches
\* have answered.
LoopInit ==
    /\ pc = "matching"
    /\ entry = "statement"
    /\ parser_invoked = TRUE
    /\ \E f \in Files :
        \E out \in ParseStatementOutcomes(f) :
            /\ ~out.raised
            /\ out.transactions # <<>>
            /\ file = f
            /\ transactions = out.transactions
    /\ \E a \in FetchOutcomes(ArCatalog) :
        /\ ar_fetch = a.kind
        /\ invoices_ar = GetInvoices(transactions, a, ArFallback)
    /\ \E b \in FetchOutcomes(ApCatalog) :
        /\ ap_fetch = b.kind
        /\ invoices_ap = GetInvoices(transactions, b, ApFallback)
    /\ idx = 1
    /\ best_match = NoMatch
    /\ matches = <<>>
    /\ errlog = <<>>
    /\ detector_raised = FALSE
    /\ discrepancies = <<>>
    /\ report_built = FALSE
    /\ report = NoReport
    /\ result = NoResult
    /\ saved = <<>>
    /\ manual = NoCall
    /\ txn = NoTransaction
    /\ cand = NoCandidate
    /\ score = NoScore
    /\ SettingsAsShipped
    /\ WorkflowIdle
    /\ NoCell

LoopNext == MatchTransaction

LoopSpec == LoopInit /\ [][LoopNext]_vars

(* ------------------------------------------------------------------ *)
(* manual_match                                                        *)
(* ------------------------------------------------------------------ *)

\* _get_transaction and _get_invoice as they stand: a record with the id
\* asked for and the amount 1500.00.
GetTransaction(transaction_id) ==
    [found |-> TRUE, id |-> transaction_id, amount |-> Cents(1500)]

GetInvoice(invoice_id) ==
    [found |-> TRUE, id |-> invoice_id, amount |-> Cents(1500)]

\* Both lookups are declared Optional[Dict]: the record, or None.
LookupOutcomes(record) == {record, NotFound}

\* confidence_override of the endpoint is any float; here -0.5, 0, 0.7,
\* 0.95, 1.0 and 1.5 in hundred-thousandths.
ManualConfidences == {0 - 50000, 0, 70000, 95000, 100000, 150000}

ManualCalls ==
    {[transaction_id |-> t, invoice_id |-> i, confidence |-> c,
      transaction |-> tr, invoice |-> inv] :
        t \in {"t-1", "t-2"}, i \in {"ar-001", "ap-001"}, c \in ManualConfidences,
        tr \in UNION {LookupOutcomes(GetTransaction(x)) : x \in {"t-1", "t-2"}},
        inv \in UNION {LookupOutcomes(GetInvoice(x)) : x \in {"ar-001", "ap-001"}}}

\* A manual_match that looks only at the transaction.
ManualMatchIgnoringInvoice(transaction_id, invoice_id, confidence, transaction, invoice) ==
    IF ~transaction.found
    THEN [saved |-> <<>>, result |-> ErrorResult("Transacao ou fatura nao encontrada")]
    ELSE [saved |-> <<[transaction_id |-> transaction_id,
                       invoice_id |-> invoice_id,
                       confidence_score |-> confidence,
                       match_type |-> "manual",
                       matched_amount |-> transaction.amount,
                       match_reason |-> "manual_override"]>>,
          result |-> [kind |-> "matched", error |-> ""]]

\* manual_match, given what the two lookups answered: what it hands to
\* _save_transaction_match and what it returns.
ManualMatchResult(transaction_id, invoice_id, confidence, transaction, invoice) ==
    IF ~transaction.found \/ ~invoice.found
    THEN [saved |-> <<>>, result |-> ErrorResult("Transacao ou fatura nao encontrada")]
    ELSE [saved |-> <<[transaction_id |-> transaction_id,
                       invoice_id |-> invoice_id,
                       confidence_score |-> confidence,
                       match_type |-> "manual",
                       matched_amount |-> transaction.amount,
                       match_reason |-> "manual_override"]>>,
          result |-> [kind |-> "matched", error |-> ""]]

ManualInit ==
    /\ EngineIdle
    /\ SettingsAsShipped
    /\ WorkflowIdle
    /\ NoCell
    /\ manual \in {c \in ManualCalls :
                     /\ c.transaction.found => c.transaction.id = c.transaction_id
                     /\ c.invoice.found => c.invoice.id = c.invoice_id}
    /\ txn = NoTransaction
    /\ cand = NoCandidate
    /\ score = NoScore

\* manual_match(transaction_id, invoice_id, confidence)
ManualMatch ==
    /\ pc = "idle"
    /\ manual # NoCall
    /\ LET out == ManualMatchResult(manual.transaction_id, manual.invoice_id,
                                    manual.confidence, manual.transaction,
                                    manual.invoice)
       IN /\ saved' = saved \o out.saved
          /\ result' = out.result
    /\ entry' = "manual"
    /\ pc' = "done"
    /\ UNCHANGED <<file, parser_invoked, transactions, ar_fetch, ap_fetch,
                   invoices_ar, invoices_ap, idx, best_match, matches, errlog,
                   detector_raised, discrepancies, report_built, report,
                   manual, txn, cand, score, date_tolerance_after,
                   amount_str, amount, invoice_data, workflow>>

ManualNext == ManualMatch

ManualSpec == ManualInit /\ [][ManualNext]_vars

(***************************************************************************)
(* Properties of the run.                                                  *)
(***************************************************************************)

\* The transaction the loop handled last, the side it was scored against
\* and the totals of the candidates whose scoring did not raise.
LoopHasRun == pc \in {"matching", "report", "done"} /\ idx > 1

LastTransaction == transactions[idx - 1]

LastCandidates == CandidatesFor(LastTransaction, invoices_ar, invoices_ap)

LastScore(k) == CalculateMatchScore(LastTransaction, LastCandidates[k])

LastScored == {k \in 1..Len(LastCandidates) : ~LastScore(k).raised}

\* C1 as stated: a pass of the matching loop appends a match for its
\* transaction exactly when find_best_match returned a candidate whose
\* confidence is at least the auto-match threshold.
C1_MatchIffAtAutoThreshold ==
    [][(pc = "matching" /\ idx' = idx + 1) =>
          ((Len(matches') = Len(matches) + 1) <=>
               (best_match'.found /\ best_match'.confidence >= AutoMatchThreshold))]_vars

\* C1 amended: a pass of the matching loop appends a match for its
\* transaction exactly when find_best_match returned a candidate whose
\* confidence is at least the auto-match threshold and that candidate
\* carries an id; the match names the transaction and the candidate; a best
\* candidate at or above the similarity floor and below the auto-match
\* threshold leaves the matches as they were.
C1_MatchIffAtAutoThresholdWithId ==
    [][(pc = "matching" /\ idx' = idx + 1) =>
          /\ (Len(matches') = Len(matches) + 1) <=>
                 /\ best_match'.found
                 /\ best_match'.confidence >= AutoMatchThreshold
                 /\ best_match'.invoice.has_id
          /\ Len(matches') = Len(matches) + 1 =>
                 /\ SubSeq(matches', 1, Len(matches)) = matches
                 /\ matches'[Len(matches')].transaction_id = transactions[idx].id
                 /\ matches'[Len(matches')].invoice_id = best_match'.invoice.id
                 /\ matches'[Len(matches')].confidence_score = best_match'.confidence
          /\ Len(matches') # Len(matches) + 1 => matches' = matches
          /\ (/\ best_match'.found
              /\ best_match'.confidence >= SimilarityThreshold
              /\ best_match'.confidence < AutoMatchThreshold) => matches' = matches]_vars

\* C1 witness: one transaction of the batch has been matched and the next
\* one has a best candidate between the floor and the auto-match threshold.
C1_MatchedThenInBand ==
    /\ LoopHasRun
    /\ Len(matches) >= 1
    /\ best_match.found
    /\ best_match.confidence >= SimilarityThreshold
    /\ best_match.confidence < AutoMatchThreshold
    /\ \A k \in 1..Len(matches) : matches[k].transaction_id # LastTransaction.id

\* C2 as stated: no two entries of the matches of a run have the same
\* transaction_id.
C2_OneMatchPerTransactionId ==
    \A i, j \in 1..Len(matches) :
        i # j => matches[i].transaction_id # matches[j].transaction_id

\* C3: a transaction with a positive amount is scored against the
\* receivable candidates only and a match of it has type receivable; a
\* transaction with a negative amount is scored against the payable
\* candidates only and a match of it has type payable.
C3_SidesFollowTheSign ==
    [][(pc = "matching" /\ idx' = idx + 1) =>
          LET t == transactions[idx]
              own == IF t.amount > 0 THEN invoices_ar ELSE invoices_ap
              type == IF t.amount > 0 THEN "receivable" ELSE "payable"
          IN /\ best_match'.found => best_match'.invoice \in Range(own)
             /\ Len(matches') > Len(matches) =>
                    /\ matches'[Len(matches')].match_type = type
                    /\ \E c \in Range(own) :
                           c.id = matches'[Len(matches')].invoice_id]_vars

\* C3 witness: a run has matched a credit to a receivable and a debit to a
\* payable while the other side had candidates too.
C3_BothSidesMatched ==
    /\ \E i, j \in 1..Len(matches) :
           /\ matches[i].match_type = "receivable"
           /\ matches[j].match_type = "payable"
    /\ invoices_ar # <<>>
    /\ invoices_ap # <<>>

\* C4: find_best_match returns the candidate with the highest total score
\* when that score is at least the similarity threshold, and no candidate
\* when none of the totals reaches it (a candidate whose scoring raises has
\* no total).
C4_BestAtOrAboveFloor ==
    LoopHasRun =>
        IF best_match.found
        THEN /\ \E k \in LastScored :
                    /\ LastCandidates[k] = best_match.invoice
                    /\ LastScore(k).total_score = best_match.confidence
             /\ \A k \in LastScored : LastScore(k).total_score <= best_match.confidence
             /\ best_match.confidence >= SimilarityThreshold
        ELSE \A k \in LastScored : LastScore(k).total_score < SimilarityThreshold

\* C4 witness: the candidate returned came later in the list than one that
\* reached the floor with a lower total.
C4_LaterHigherCandidateWon ==
    /\ LoopHasRun
    /\ best_match.found
    /\ \E k, n \in LastScored :
           /\ k < n
           /\ LastCandidates[n] = best_match.invoice
           /\ LastScore(k).total_score < best_match.confidence
           /\ LastScore(k).total_score >= SimilarityThreshold

\* C5: when several candidates have the same highest total score,
\* find_best_match returns the one that comes first in the candidate list.
C5_FirstOfTheTiedWins ==
    (LoopHasRun /\ best_match.found) =>
        \E k \in LastScored :
            /\ LastCandidates[k] = best_match.invoice
            /\ \A n \in LastScored :
                   n < k => LastScore(n).total_score < LastScore(k).total_score
            /\ \A n \in LastScored :
                   LastScore(n).total_score <= LastScore(k).total_score

\* C5 witness: two different candidates of the list had the highest total.
C5_TwoCandidatesTied ==
    /\ LoopHasRun
    /\ best_match.found
    /\ \E k, n \in LastScored :
           /\ k < n
           /\ LastCandidates[k] # LastCandidates[n]
           /\ LastScore(k).total_score = best_match.confidence
           /\ LastScore(n).total_score = best_match.confidence

\* C6 as stated: when the pass of one transaction raises inside the
\* matching loop, the error is logged, that transaction contributes no
\* match, the other transactions of the batch are matched as they would be
\* without it, and the run still produces a report (taken here on the runs
\* whose discrepancy detection answered).
C6_ScoringErrorIsolated ==
    (pc = "done" /\ entry = "statement" /\ errlog # <<>> /\ ~detector_raised) =>
        /\ \A e \in Range(errlog) :
               \A k \in 1..Len(matches) :
                   matches[k].transaction_id # transactions[e].id
        /\ matches =
               PerformAutomaticMatching(
                   SelectSeq(transactions,
                             LAMBDA t : \A e \in Range(errlog) : transactions[e] # t),
                   invoices_ar, invoices_ap)
        /\ report_built
        /\ result.kind = "report"

\* C7 as stated: when the fetch of the receivable or of the payable
\* candidates fails, the run goes on with no candidates for that side, the
\* transactions of that side stay unmatched, and a report is still produced
\* (taken here on the runs whose discrepancy detection answered).
C7_FailedFetchLeavesSideEmpty ==
    /\ ar_fetch \in {"non200", "exception"} =>
           /\ invoices_ar = <<>>
           /\ \A k \in 1..Len(matches) : matches[k].match_type # "receivable"
    /\ ap_fetch \in {"non200", "exception"} =>
           /\ invoices_ap = <<>>
           /\ \A k \in 1..Len(matches) : matches[k].match_type # "payable"
    /\ (/\ pc = "done"
        /\ ~detector_raised
        /\ ar_fetch \in {"non200", "exception"} \/ ap_fetch \in {"non200", "exception"})
           => result.kind = "report"

\* C8 as stated: when the discrepancy detector raises, the run still
\* returns the reconciliation report built from the matches found, not an
\* error result in its place.
C8_DetectorErrorStillReports ==
    (pc = "done" /\ detector_raised) =>
        /\ report_built
        /\ report.matches = matches
        /\ result.kind = "report"

\* C9 as stated: a zero-byte upload is rejected by validation before the
\* parser is invoked; no invoice is fetched, nothing is scored and no
\* report is built for it.
C9_EmptyFileRejectedBeforeParsing ==
    (entry = "statement" /\ file.empty) =>
        /\ ~parser_invoked
        /\ ar_fetch = ""
        /\ ap_fetch = ""
        /\ idx = 1
        /\ ~report_built
        /\ pc = "done" => result.kind = "rejected"

\* C10 as stated: in the report every transaction of the batch is either
\* the transaction_id of exactly one entry of matches or an element of
\* unmatched_transactions, never both and never neither; so matched_count +
\* unmatched_count = total_transactions and unmatched_count is the length
\* of unmatched_transactions.
C10_ReportPartitionsTheBatch ==
    report_built =>
        /\ \A i \in 1..Len(transactions) :
               LET in_matches ==
                       Cardinality({k \in 1..Len(report.matches) :
                           report.matches[k].transaction_id = transactions[i].id}) = 1
                   in_unmatched ==
                       \E k \in 1..Len(report.unmatched_transactions) :
                           report.unmatched_transactions[k] = transactions[i]
               IN in_matches # in_unmatched
        /\ report.matched_count + report.unmatched_count = report.total_transactions
        /\ report.unmatched_count = Len(report.unmatched_transactions)

\* A pair has been scored.
Scored == score # NoScore

\* C11 as stated: for every transaction/candidate pair each of the four
\* component scores and the weighted total lie in [0.0, 1.0].
C11_ScoresInUnitInterval ==
    Scored =>
        /\ ~score.raised
        /\ score.amount_score \in 0..1000
        /\ score.date_score \in 0..1000
        /\ score.description_score \in 0..1000
        /\ score.reference_score \in 0..1000
        /\ score.total_score \in 0..100000

\* C12 as stated: for every candidate amount, an absolute difference equal
\* to amount_tolerance_absolute gives amount_score 0.95 and a difference one
\* unit (a cent, or a whole currency unit) beyond it gives an amount_score
\* strictly below 0.95 (taken here on the candidate amounts other than 0).
C12_AbsoluteToleranceBoundary ==
    (Scored /\ cand.amount # 0) =>
        LET abs_diff == Abs(Abs(txn.amount) - cand.amount) IN
        /\ abs_diff = Cents(AmountToleranceAbsolute) =>
               ~score.raised /\ score.amount_score = 950
        /\ abs_diff \in {Cents(AmountToleranceAbsolute) + 1,
                         Cents(AmountToleranceAbsolute + 1)} =>
               ~score.raised /\ score.amount_score < 950

\* Equal amount, equal date and a description score of 1.0.
ExactPair ==
    /\ Scored
    /\ ~score.raised
    /\ Abs(txn.amount) = cand.amount
    /\ txn.date = cand.due_date
    /\ score.description_score = 1000

ScenarioATransaction ==
    Transaction(<<"csv", 0, 41, Cents(1000)>>,
                Row("", 0, 41, Cents(1000), DescPix, <<"NF4521">>))

ScenarioACandidate == Candidate("ar-1", Cents(1000), 41, DescCliente4521, <<>>)

ScenarioAScored == Scored /\ txn = ScenarioATransaction /\ cand = ScenarioACandidate

\* C14 as stated: in Scenario A the reference score is 1.0, the total is
\* at least 0.95 and the transaction is accepted as an automatic match of
\* type receivable.
C14_ScenarioAAccepted ==
    ScenarioAScored =>
        /\ score.reference_score = 1000
        /\ score.total_score >= AutoMatchThreshold
        /\ \E m \in Range(PerformAutomaticMatching(<<txn>>, <<cand>>, <<>>)) :
               /\ m.transaction_id = txn.id
               /\ m.invoice_id = "ar-1"
               /\ m.match_type = "receivable"

\* C14 amended: in Scenario A the amount and date scores are 1.0, the
\* description score is 0.86, the reference score is the neutral 0.5 (the
\* candidate yields no reference token: "4521" and "ar-1" fit none of the
\* patterns), the total is 0.915; find_best_match returns ar-1 with that
\* confidence and the transaction is not matched automatically.
C14_ScenarioAFoundNotAccepted ==
    ScenarioAScored =>
        /\ ~score.raised
        /\ score.amount_score = 1000
        /\ score.date_score = 1000
        /\ score.description_score = 860
        /\ score.reference_score = 500
        /\ score.total_score = 91500
        /\ FindBestMatch(txn, <<cand>>).found
        /\ FindBestMatch(txn, <<cand>>).invoice = cand
        /\ FindBestMatch(txn, <<cand>>).confidence = 91500
        /\ PerformAutomaticMatching(<<txn>>, <<cand>>, <<>>) = <<>>

\* C14 witness: the pair of Scenario A has been scored.
C14_ScenarioAReached ==
    ScenarioAScored /\ score.total_score = 91500

\* C15 as stated: every TransactionMatch the engine creates, by automatic
\* matching or by manual_match with any confidence_override, has a
\* confidence in [0, 1], a match_type among receivable, payable and manual,
\* and a matched_amount that is not negative.
C15_MatchesWellFormed ==
    \A m \in Range(matches) \cup Range(saved) :
        /\ m.confidence_score \in 0..100000
        /\ m.match_type \in {"receivable", "payable", "manual"}
        /\ m.matched_amount >= 0

\* A call of manual_match has returned.
ManualDone == pc = "done" /\ entry = "manual"

\* C16: manual_match saves a TransactionMatch exactly when both the
\* transaction and the invoice are found; the saved match names the two ids
\* of the call, has match_type "manual" and the caller's confidence,
\* whatever that confidence is (the scorer is not called, no threshold is
\* consulted); when either record is not found nothing is saved and an
\* error is returned.
C16_ManualMatchSavesIffBothFound ==
    ManualDone =>
        /\ saved # <<>> <=> (manual.transaction.found /\ manual.invoice.found)
        /\ saved # <<>> =>
               /\ Len(saved) = 1
               /\ saved[1].transaction_id = manual.transaction_id
               /\ saved[1].invoice_id = manual.invoice_id
               /\ saved[1].match_type = "manual"
               /\ saved[1].confidence_score = manual.confidence
               /\ result.kind = "matched"
        /\ saved = <<>> => result.kind = "error"
        /\ best_match = NoMatch
        /\ score = NoScore
        /\ matches = <<>>

\* C16 witness: a manual match was saved with a confidence below the
\* similarity threshold.
C16_SavedBelowEveryThreshold ==
    /\ ManualDone
    /\ saved # <<>>
    /\ saved[1].confidence_score < SimilarityThreshold
    /\ saved[1].match_type = "manual"

\* C17 as stated: the list the parser returns holds no two transactions
\* with the same date, amount and description (such rows are collapsed into
\* one), and it is ordered by date ascending.
C17_ParsedCollapsedAndOrdered ==
    \A i, j \in 1..Len(transactions) :
        i < j =>
            /\ ~ /\ transactions[i].date = transactions[j].date
                 /\ transactions[i].amount = transactions[j].amount
                 /\ transactions[i].description = transactions[j].description
            /\ transactions[i].date <= transactions[j].date

\* C18 as stated: the transaction ids of one parsed batch are pairwise
\* distinct, for CSV files with any rows and for OFX files with any number
\* of accounts and statement transactions.
C18_BatchIdsPairwiseDistinct ==
    \A i, j \in 1..Len(transactions) :
        i # j => transactions[i].id # transactions[j].id

\* C19 as stated: a batch of more than max_transactions_per_batch
\* transactions is rejected or split; the scorer never runs over a single
\* batch larger than the ceiling.
C19_ScoredBatchWithinCeiling ==
    LoopHasRun => Len(transactions) <= MaxTransactionsPerBatch

\* The batch in another order.
BatchOrders(n) ==
    {p \in [1..n -> 1..n] : \A i, j \in 1..n : p[i] = p[j] => i = j}

Permuted(s, p) == [i \in 1..Len(s) |-> s[p[i]]]

\* The candidate lists with the side opposite to the transaction left out.
OwnSideOnly(transaction, ar, ap) ==
    IF transaction.amount > 0 THEN <<ar, <<>> >> ELSE << <<>>, ap>>

\* The decision for one transaction taken alone, against its own side.
DecisionAlone(transaction) ==
    LET own == OwnSideOnly(transaction, invoices_ar, invoices_ap)
    IN MatchOne(transaction, own[1], own[2])

RECURSIVE DecisionsAlone(_)
DecisionsAlone(txns) ==
    IF txns = <<>> THEN <<>>
    ELSE DecisionAlone(Head(txns)).new \o DecisionsAlone(Tail(txns))

\* C20: the decision for a transaction (matched or not, the invoice, the
\* confidence, the reason) is the one taken for it alone against the
\* candidates of its side, whatever the rest of the batch; and at the end
\* of the loop the set of matches is the one the loop yields for every
\* permutation of the batch.  Stated on the states of the loop: no later
\* step changes matches.
C20_DecisionsIndependentOfBatchOrder ==
    (LoopHasRun /\ pc = "matching") =>
        /\ best_match = DecisionAlone(transactions[idx - 1]).best_match
        /\ matches = DecisionsAlone(SubSeq(transactions, 1, idx - 1))
        /\ idx > Len(transactions) =>
               \A p \in BatchOrders(Len(transactions)) :
                   Range(PerformAutomaticMatching(Permuted(transactions, p),
                                                  invoices_ar, invoices_ap))
                       = Range(matches)

\* C20 witness: a batch of two different transactions went through the
\* loop with both sides loaded; one was matched, the other was not.
C20_MixedBatchBothOrders ==
    /\ LoopHasRun
    /\ idx > Len(transactions)
    /\ Len(transactions) = 2
    /\ transactions[1] # transactions[2]
    /\ invoices_ar # <<>>
    /\ invoices_ap # <<>>
    /\ Len(matches) = 1

\* parse_statement raised in this run.
ParseFailed == parser_invoked /\ result = ErrorResult("parse")

\* C21: when parsing fails for the file (a CSV whose date and amount
\* columns cannot both be identified, for example), process_bank_statement
\* aborts: no candidate fetch, no scoring, no discrepancy detection, and
\* the caller gets an error result with no report in it.
C21_ParseFailureAbortsTheRun ==
    /\ (parser_invoked /\ file.format = "csv" /\ ~file.columns_ok) => ParseFailed
    /\ ParseFailed =>
           /\ pc = "done"
           /\ transactions = <<>>
           /\ ar_fetch = ""
           /\ ap_fetch = ""
           /\ invoices_ar = <<>>
           /\ invoices_ap = <<>>
           /\ idx = 1
           /\ best_match = NoMatch
           /\ matches = <<>>
           /\ ~detector_raised
           /\ discrepancies = <<>>
           /\ ~report_built
           /\ report = NoReport
           /\ result.kind = "error"

\* C21 witness: a CSV without a date and an amount column was handed to
\* the parser and the run has ended.
C21_UnmappableCsvFailed ==
    /\ file.format = "csv"
    /\ ~file.empty
    /\ ~file.columns_ok
    /\ ParseFailed
    /\ pc = "done"

\* The candidates of the last pass whose scoring raised.
LastRaising == {k \in 1..Len(LastCandidates) : LastScore(k).raised}

\* The last pass appended a match for its transaction.
LastMatched == AutoAccepted(best_match) /\ best_match.invoice.has_id

SharedToken == Range(txn.refs) \cap Range(cand.refs) # {}

\* C24 as stated: whenever some reference token of the transaction equals
\* some reference token of the candidate, the reference score is 1.0,
\* whatever the other tokens and the order of comparison; it is 0.5 when a
\* side yields no token, a similarity above 0.8 only when there is no
\* exact match, and 0.0 otherwise.
C24_SharedTokenScoresOne ==
    Scored =>
        /\ SharedToken => score.reference_score = 1000
        /\ (txn.refs = <<>> \/ cand.refs = <<>>) => score.reference_score = 500
        /\ (score.reference_score > 800 /\ score.reference_score < 1000)
               => ~SharedToken
        /\ score.reference_score \in {0, 500, 1000}
               \/ (score.reference_score > 800 /\ score.reference_score < 1000)

\* The six single-factor labels in their priority order, each with the
\* score of its factor when that crossed the label's threshold, else 0.
StrongFactors ==
    << <<"valor_exato", IF score.amount_score >= 950 THEN score.amount_score ELSE 0>>,
       <<"valor_similar",
         IF score.amount_score >= 800 /\ score.amount_score < 950
         THEN score.amount_score ELSE 0>>,
       <<"data_exata", IF score.date_score >= 950 THEN score.date_score ELSE 0>>,
       <<"data_proxima",
         IF score.date_score >= 800 /\ score.date_score < 950
         THEN score.date_score ELSE 0>>,
       <<"descricao_similar",
         IF score.description_score >= 800 THEN score.description_score ELSE 0>>,
       <<"referencia_match",
         IF score.reference_score >= 800 THEN score.reference_score ELSE 0>> >>

CombinationLabels ==
    {"valor_e_data", "valor_e_descricao", "descricao_e_data", "combinacao_fatores"}

\* C25 as stated: the primary reason is the label of the first factor, in
\* the priority order, that crossed its threshold, whatever the scores of
\* the factors after it; a combination label only when none crossed.
C25_ReasonIsFirstCrossed ==
    (Scored /\ ~score.raised) =>
        /\ \A i \in 1..6 :
               (StrongFactors[i][2] > 0 /\ \A j \in 1..(i - 1) : StrongFactors[j][2] = 0)
                   => score.primary_reason = StrongFactors[i][1]
        /\ score.primary_reason \in CombinationLabels
               <=> \A i \in 1..6 : StrongFactors[i][2] = 0

\* C25 amended: the primary reason is the label of the factor with the
\* highest score among those that crossed their threshold; the priority
\* order decides between equal scores only; a combination label is
\* returned exactly when no factor crossed its threshold.
C25_ReasonIsHighestCrossed ==
    (Scored /\ ~score.raised) =>
        /\ \A i \in 1..6 :
               score.primary_reason = StrongFactors[i][1] <=>
                   /\ StrongFactors[i][2] > 0
                   /\ \A j \in 1..6 : StrongFactors[j][2] <= StrongFactors[i][2]
                   /\ \A j \in 1..(i - 1) : StrongFactors[j][2] < StrongFactors[i][2]
        /\ score.primary_reason \in CombinationLabels
               <=> \A i \in 1..6 : StrongFactors[i][2] = 0

\* C25 witness: the amount is within the absolute tolerance (0.95) and the
\* date is exact (1.0): the reason is the date, not the amount.
C25_DateOutranksAmount ==
    /\ Scored
    /\ ~score.raised
    /\ score.amount_score = 950
    /\ score.date_score = 1000
    /\ score.primary_reason = "data_exata"

\* The amounts of the scored pair differ by more than the absolute and by
\* more than the percentage tolerance, and the candidate amount is not 0.
BeyondBothTolerances ==
    LET abs_diff == Abs(Abs(txn.amount) - cand.amount) IN
    /\ cand.amount # 0
    /\ abs_diff > Cents(AmountToleranceAbsolute)
    /\ abs_diff * 100 > AmountTolerancePercent * cand.amount

\* C26 as stated: for every transaction amount and every non-zero candidate
\* amount whose difference is beyond both the absolute and the percentage
\* tolerance, the amount score is a small residual strictly greater than 0.
C26_ResidualStrictlyPositive ==
    (Scored /\ BeyondBothTolerances) =>
        /\ ~score.raised
        /\ score.amount_score > 0
        /\ score.amount_score <= 300

\* The engine, given the scored transaction and the scored candidate as
\* the only receivable, appends a match.
PairAutoMatched ==
    /\ Scored
    /\ PerformAutomaticMatching(<<txn>>, <<cand>>, <<>>) # <<>>

\* C27: with the weights 0.40/0.25/0.25/0.10 and the auto-match threshold
\* 0.95, every automatic match has amount_score >= 0.875, date_score >= 0.8
\* and reference_score >= 0.5: the candidate has a date, it is at most 7
\* days from the transaction date, and the amounts are within the absolute
\* or the percentage tolerance.
C27_AutoMatchComponentFloors ==
    PairAutoMatched =>
        LET abs_diff == Abs(Abs(txn.amount) - cand.amount) IN
        /\ ~score.raised
        /\ score.amount_score >= 875
        /\ score.date_score >= 800
        /\ score.reference_score >= 500
        /\ cand.due_date # None
        /\ Abs(txn.date - cand.due_date) <= 7
        /\ \/ abs_diff <= Cents(AmountToleranceAbsolute)
           \/ abs_diff * 100 <= AmountTolerancePercent * cand.amount

\* C27 witness: a pair matched at the floor of the date score, seven days
\* apart, everything else exact.
C27_MatchedSevenDaysApart ==
    /\ PairAutoMatched
    /\ Abs(txn.date - cand.due_date) = 7
    /\ score.date_score = 800
    /\ score.total_score = AutoMatchThreshold

\* C28 as stated: the date score depends only on the absolute number of
\* days between the two dates (a candidate dated as many days before the
\* transaction as another is after it scores the same), and for every
\* configured date_tolerance_after it does not increase as the number of
\* days grows.
C28_DateScoreSymmetricNonIncreasing ==
    Scored =>
        LET days_diff == Abs(txn.date - cand.due_date)
            mirrored == txn.date + (txn.date - cand.due_date)
        IN /\ score.date_score
                  = DateScoreAt(Abs(txn.date - mirrored), date_tolerance_after)
           /\ \A fewer \in 0..days_diff :
                  DateScoreAt(fewer, date_tolerance_after) >= score.date_score

\* The passes made so far whose transaction, taken alone, is matched to
\* the invoice with this id.
PassesMatchedTo(invoice_id) ==
    {j \in 1..(idx - 1) :
        LET new == DecisionAlone(transactions[j]).new
        IN new # <<>> /\ new[1].invoice_id = invoice_id}

\* C29: candidates are not consumed by matching.  Every pass scores its
\* transaction against the whole list of its side, an invoice named by a
\* match is still in the candidate lists, and an invoice is named by as
\* many matches as there were transactions whose best candidate it is: two
\* transactions of the same sign can both be matched to the same invoice.
C29_CandidatesNotConsumed ==
    (LoopHasRun /\ pc = "matching") =>
        /\ best_match = FindBestMatch(LastTransaction, LastCandidates)
        /\ \A k \in 1..Len(matches) :
               /\ \E c \in Range(invoices_ar) \cup Range(invoices_ap) :
                      c.id = matches[k].invoice_id
               /\ Cardinality({n \in 1..Len(matches) :
                                   matches[n].invoice_id = matches[k].invoice_id})
                      = Cardinality(PassesMatchedTo(matches[k].invoice_id))

\* C29 witness: two transactions of one run, with different ids, were both
\* matched to the same receivable.
C29_TwoMatchesOneInvoice ==
    /\ LoopHasRun
    /\ pc = "matching"
    /\ Len(matches) = 2
    /\ matches[1].invoice_id = matches[2].invoice_id
    /\ matches[1].transaction_id # matches[2].transaction_id
    /\ matches[1].match_type = "receivable"
    /\ matches[2].match_type = "receivable"

\* The digits of the cell read as one integer, and the digits after its
\* first comma.
CellDigits == DigitsToInt(SelectSeq(amount_str, LAMBDA c : c \in DigitChars))

DigitsAfterComma ==
    Cardinality({i \in 1..Len(amount_str) :
                    /\ amount_str[i] \in DigitChars
                    /\ \E j \in 1..(i - 1) : amount_str[j] = ","})

\* C22: _parse_amount reads a value with both '.' and ',' with ',' as the
\* decimal mark and '.' as thousands ("1.234,56" gives 1234.56); a value
\* with ',' only is decimal when exactly one comma is followed by at most
\* two digits ("1234,56" gives 1234.56) and thousands otherwise ("1,234"
\* gives 1234).  Stated on the cells for which the function returns.
C22_BrazilianSeparators ==
    (amount.parsed /\ ~amount.raised) =>
        LET commas == CountOf(amount_str, ",")
            dots == CountOf(amount_str, ".")
            clean == CleanAmount(amount_str)
            decimal == commas = 1 /\ Len(clean) - PositionOf(clean, ",") <= 2
        IN /\ (commas > 0 /\ dots > 0) =>
                  /\ Abs(amount.mantissa) = CellDigits
                  /\ amount.decimals = DigitsAfterComma
           /\ (commas > 0 /\ dots = 0 /\ decimal) =>
                  /\ Abs(amount.mantissa) = CellDigits
                  /\ amount.decimals = DigitsAfterComma
                  /\ amount.decimals <= 2
           /\ (commas > 0 /\ dots = 0 /\ ~decimal) =>
                  /\ Abs(amount.mantissa) = CellDigits
                  /\ amount.decimals = 0
           /\ amount_str \in {<<"1", ".", "2", "3", "4", ",", "5", "6">>,
                              <<"1", "2", "3", "4", ",", "5", "6">>} =>
                  amount.mantissa = 123456 /\ amount.decimals = 2
           /\ amount_str = <<"1", ",", "2", "3", "4">> =>
                  amount.mantissa = 1234 /\ amount.decimals = 0

\* C22 witness: the three cells of the claim's examples were parsed, here
\* the one with a comma and three digits after it.
C22_ThousandsCommaParsed ==
    /\ amount.parsed
    /\ ~amount.raised
    /\ amount_str = <<"1", ",", "2", "3", "4">>
    /\ amount.mantissa = 1234
    /\ amount.decimals = 0

\* The statuses in which a workflow waits for a person or has refused
\* the invoice.
HeldStatuses == {"validation_failed", "pending_exception_review", "pending_approval"}

\* What C30 asks of the result of one invoice.
AutoApprovalGuarded(invoice, outcome) ==
    /\ outcome.status = "approved_payment_scheduled" =>
           /\ outcome.is_valid
           /\ outcome.matching_ran
           /\ outcome.matching_result.exceptions = <<>>
           /\ invoice.total_amount <= AutoApprovalLimit
           /\ outcome.payment_scheduled
    /\ (\/ ~outcome.is_valid
        \/ outcome.matching_result.exceptions # <<>>
        \/ invoice.total_amount > AutoApprovalLimit) =>
           /\ outcome.status \in HeldStatuses
           /\ ~outcome.payment_scheduled
           /\ ~outcome.payment_requested

\* C30: process_invoice ends with status approved_payment_scheduled, and
\* schedules a payment, only if validation passed, the 3-way matching
\* produced no exception at all and the total is at most
\* auto_approval_limit; an invoice that failed validation, has any
\* matching exception (auto-resolved ones included) or exceeds the limit
\* ends in validation_failed, pending_exception_review or pending_approval
\* with no payment scheduled.  Checked on the result the run returned and,
\* for the same invoice, on the result of every answer the purchase-order
\* lookup could give.
C30_AutoApprovalOnlyWhenCleanAndSmall ==
    /\ workflow # NoWorkflow => AutoApprovalGuarded(invoice_data, workflow)
    /\ invoice_data # NoInvoiceData =>
           \A purchase_order \in PurchaseOrders \cup {NoPurchaseOrder}, today \in Todays :
               AutoApprovalGuarded(invoice_data,
                   ProcessInvoiceWith(invoice_data, purchase_order, today))

\* C30 witness: a valid invoice above the automatic limit whose matching
\* raised an exception was held for review and no payment was scheduled.
C30_HeldForExceptionReview ==
    /\ workflow.status = "pending_exception_review"
    /\ workflow.is_valid
    /\ workflow.matching_result.exceptions # <<>>
    /\ invoice_data.total_amount > AutoApprovalLimit
    /\ ~workflow.payment_scheduled
    /\ ~workflow.payment_requested

====
